---- MODULE Spec2Model ----
(***************************************************************************)
(* LiveKitAudioManager (src/unnamed/part_000): the track registry, the     *)
(* playback sinks, activity detection and the audio-capture pipeline,      *)
(* modelled as a state machine.  One action per public method, DOM event   *)
(* or asynchronous continuation.                                           *)
(*                                                                         *)
(* Handlers are written as functions on a state record `s` (the fields of  *)
(* the manager plus the events emitted and the "threw" flag of the call in *)
(* progress), composed in the order of the source's statements.            *)
(***************************************************************************)
EXTENDS Integers, Sequences, FiniteSets, TLC

(***************************************************************************)
(* Bounds of the model                                                     *)
(***************************************************************************)
\* number of HTMLAudioElement objects that can be alive at the same time
MaxElems == 2
\* one volume unit is 1/VolUnit: a volume n stands for n / VolUnit
VolUnit == 2
\* registration promises that can be referenced at the same time
MaxPromises == 2
\* #setupAudioWorkletCapture calls that can be suspended at the same time
MaxTasks == 2
\* audioWorklet.addModule calls counted on one AudioContext
MaxRegistrations == 2

\* frequencyBinCount of an analyser (128 in the source: half of fftSize)
NBins == 2

\* setMicrophoneEnabled calls that can be in flight at once
MaxMicCalls == 2
\* largest frame count (bufferSize) a PCMProcessor is constructed with
MaxFrame == 3
\* longest block of samples handed to one process() call
MaxBlock == 2
\* samples fed to one PCMProcessor in all
MaxFed == 5
\* samples rendered into the two capture graphs in all
MaxRendered == 4
\* encoded chunks one run hands to arrayBuffer() in all
MaxChunks == 3
\* a sample n stands for the number n / SampleDenom
SampleDenom == 8
\* longest sample buffer handed to the conversion
MaxBuffer == 2

(***************************************************************************)
(* Small helpers                                                           *)
(***************************************************************************)
Range(f) == {f[i] : i \in DOMAIN f}

Min2(a, b) == IF a < b THEN a ELSE b

Max2(a, b) == IF a > b THEN a ELSE b

(***************************************************************************)
(* Strings the code inspects character by character are tuples of          *)
(* one-character strings.                                                  *)
(***************************************************************************)
LowerOf(c) ==
  CASE c = "A" -> "a"
    [] c = "G" -> "g"
    [] c = "E" -> "e"
    [] c = "N" -> "n"
    [] c = "T" -> "t"
    [] OTHER -> c

\* String.prototype.toLowerCase
ToLowerCase(str) == [i \in DOMAIN str |-> LowerOf(str[i])]

\* String.prototype.includes
Includes(str, sub) ==
  \E i \in 1..(Len(str) - Len(sub) + 1) : SubSeq(str, i, i + Len(sub) - 1) = sub

AgentWord == <<"a", "g", "e", "n", "t">>

UnknownWord == <<"u", "n", "k", "n", "o", "w", "n">>

(***************************************************************************)
(* The tracks of the session (objects handed in by the transport).         *)
(* sid / mediaId are "" when the track has none.                           *)
(***************************************************************************)
Tracks == {"tA", "tU", "tL", "tV"}

\* the agent's stream handed in again under the same sid with a new publication
Republished == "tR"

\* two remote audio streams that have neither a sid nor a media track
Nameless == {"tN1", "tN2"}

TrackKind(t) == IF t = "tV" THEN "video" ELSE "audio"

TrackIsRemote(t) == t # "tL"

TrackSid(t) ==
  CASE t \in {"tA", Republished} -> "TR_A"
    [] t = "tU" -> "TR_U"
    [] t = "tV" -> "TR_V"
    [] OTHER -> ""

TrackMediaId(t) ==
  CASE t = "tL" -> "ms_L"
    [] t \in {"tA", Republished} -> "ms_A"
    [] OTHER -> ""

\* whether track.mediaStreamTrack is present
TrackHasMedia(t) == t \in {"tA", "tU", "tL", "tV", Republished}

\* participant.identity of the participant that owns the track
TrackIdentity(t) ==
  CASE t \in {"tA", Republished} -> <<"A", "g", "e", "n", "t", "1">>
    [] t = "tU" -> <<"b", "o", "b">>
    [] t = "tL" -> <<"m", "e">>
    [] OTHER -> <<>>

\* Track.Source of the track and of its publication
TrackSourceEnum(t) ==
  CASE t \in {"tA", Republished} -> "Microphone"
    [] t = "tU" -> "ScreenShareAudio"
    [] t = "tL" -> "Microphone"
    [] t = "tV" -> "Camera"
    [] OTHER -> "Unknown"

AudioTracks == {t \in Tracks : TrackKind(t) = "audio"}

RemoteAudioTracks == {t \in AudioTracks : TrackIsRemote(t)}

\* order in which #getTrackById visits publications: remote first, then local
LookupOrder == <<"tA", "tU", "tV", "tL">>

\* a variant that prefers the id of the media track
TrackKey_MediaFirst(t) ==
  IF TrackHasMedia(t) /\ TrackMediaId(t) # "" THEN TrackMediaId(t)
  ELSE IF TrackSid(t) # "" THEN TrackSid(t)
  ELSE "unknown"

\* track.sid || track.mediaStreamTrack?.id || 'unknown'
TrackKey(t) ==
  IF TrackSid(t) # "" THEN TrackSid(t)
  ELSE IF TrackHasMedia(t) /\ TrackMediaId(t) # "" THEN TrackMediaId(t)
  ELSE "unknown"

\* participant.identity || 'unknown'
ParticipantName(t) == IF TrackIdentity(t) = <<>> THEN UnknownWord ELSE TrackIdentity(t)

GetTrackSourceString(src) ==
  CASE src = "Microphone" -> "microphone"
    [] src = "Camera" -> "camera"
    [] src = "ScreenShare" -> "screen_share"
    [] src = "ScreenShareAudio" -> "screen_share_audio"
    [] OTHER -> "unknown"

(***************************************************************************)
(* Program constants                                                       *)
(***************************************************************************)
MAX_VOLUME == 1 * VolUnit

MIN_VOLUME == 0

DEFAULT_VOLUME == 0

DEFAULT_AUDIO_FORMAT == "opus-webm"

INT16_SCALE == 32767

BYTE_MAX == 255

(***************************************************************************)
(* State                                                                   *)
(***************************************************************************)
VARIABLES
  trackStats,          \* Map<string, TrackStatsData>, in insertion order
  elems,               \* the HTMLAudioElement objects, in creation order;
                       \* those with live = TRUE are this.audioElements
  volume,              \* this.volume
  room,                \* this.room is set
  audioCaptureEnabled, \* this.audioCaptureEnabled
  audioCaptureOptions, \* this.audioCaptureOptions
  recorders,           \* Map<string, MediaRecorder>
  processors,          \* Map<string, AudioNode>
  sourceNodes,         \* Map<string, MediaStreamAudioSourceNode>
  clonedTracks,        \* Map<string, MediaStreamTrack>
  trackCaptureMap,     \* Map<string, {participant, source}>
  liveClones,          \* per stream key: clones made and not yet told to stop
  audioContext,        \* this.audioContext
  workletReady,        \* this.workletReady (0 for null, or a promise)
  promises,            \* state of the registration promises
  tasks,               \* #setupAudioWorkletCapture calls suspended at await
  registrations,       \* history: audioWorklet.addModule calls made on the
                       \* AudioContext the manager holds
  orphans,             \* history: the audio nodes a capture setup created and
                       \* left in no map
  inputAnalyser,       \* this.inputAnalyser is set
  outputAnalyser,      \* this.outputAnalyser is set
  returned,            \* what the last level or frequency query returned
  micCalls,            \* setMicrophoneEnabled promises in flight, with the
                       \* muted argument of the setMicMuted that made each
  errorListener,       \* an 'error' listener is registered
  emitted,             \* events emitted by the last call, in order
  threw,               \* the last call threw to its caller
  released,            \* the resources the last call told to stop or disconnect
  resolvable,          \* history: of the stream ids the last call had before
                       \* it while armed (the stream subscribed, or the whole
                       \* registry), those #getTrackById could resolve to a
                       \* track with media
  chunks,              \* the encoded chunks whose arrayBuffer() is resolving:
                       \* the stream key, and the teardown that dropped the
                       \* recorder of the chunk (0 while the recorder is held)
  late,                \* history: the chunks handed to the capture callback
                       \* after their recorder was dropped
  lastOp,              \* the last call and its arguments
  subscribed,          \* history: per stream key, the audio track last subscribed
                       \* and not unsubscribed since (cleanup() drops them all)
  convIn,              \* the Float32Array handed to #float32ToInt16
  convOut,             \* the Int16Array it returned
  pcm,                 \* a PCMProcessor: bufferSize, buffer, index
  fed,                 \* history: the samples its process() calls were handed
  posted,              \* history: the buffers it posted, in order
  scriptNode,          \* a ScriptProcessorNode: bufferSize and the samples the
                       \* platform holds for its next audioprocess event
  delivered,           \* history: the requested format and, per strategy, the
                       \* buffers handed to the capture callback, each with
                       \* whether the callback threw
  agent,               \* a HamsaVoiceAgent: webSocketManager, jobId, the position
                       \* of its start(), its wake lock manager, and as history the
                       \* last call made on the socket manager and the last event
  job                  \* one getJobDetails call: its arguments, the position of
                       \* fetchJobDetails, and as history its requests and waits

managerVars == <<trackStats, elems, volume, room,
          audioCaptureEnabled, audioCaptureOptions, recorders, processors,
          sourceNodes, clonedTracks, trackCaptureMap, liveClones,
          audioContext, workletReady, promises, tasks, registrations, orphans,
          inputAnalyser,
          outputAnalyser, returned, micCalls, errorListener,
          emitted, threw, released, resolvable, lastOp, subscribed, convIn, convOut,
          pcm, fed, posted, scriptNode, delivered, chunks, late>>

\* the state of the agent facade
agentVars == <<agent, job>>

vars == <<managerVars, agentVars>>

\* the state of the audio rendering thread
dspVars == <<pcm, fed, posted, scriptNode, delivered>>

Slots == 1..MaxElems

\* this.audioElements: a Set iterates in insertion order, and an element is
\* inserted once, when it is created
AudioElements(s) == {e \in DOMAIN s.elems : s.elems[e].live}

StreamKeys == {TrackKey(t) : t \in Tracks}

Ev(type, id, val) == [type |-> type, id |-> id, val |-> val]

Op(name, arg, n) == [op |-> name, arg |-> arg, n |-> n]

\* a level as num / unit, and a byte array
Returned(num, unit, data) == [num |-> num, unit |-> unit, data |-> data]

NoReturn == Returned(0, 1, <<>>)

\* the teardowns that dropped a recorder with a chunk of cs or ls
Teardowns(cs, ls) ==
  {cs[i].droppedBy : i \in DOMAIN cs} \cup {ls[i].droppedBy : i \in DOMAIN ls} \cup {0}

\* recorders.clear() with chunks still resolving: the chunks of the recorders
\* that left the map are the chunks of one more teardown (numbered with the
\* first number no chunk carries)
DropRecorders(cs, ls, recs) ==
  LET free == (1..(Len(cs) + Len(ls) + 1)) \ Teardowns(cs, ls)
      n == CHOOSE m \in free : \A j \in free : m <= j IN
  [i \in DOMAIN cs |->
     IF cs[i].droppedBy = 0 /\ cs[i].trackId \notin recs
       THEN [cs[i] EXCEPT !.droppedBy = n] ELSE cs[i]]

\* the state a handler works on
Cur ==
  [trackStats |-> trackStats, elems |-> elems,
   volume |-> volume, room |-> room,
   audioCaptureEnabled |-> audioCaptureEnabled,
   audioCaptureOptions |-> audioCaptureOptions, recorders |-> recorders,
   processors |-> processors, sourceNodes |-> sourceNodes,
   clonedTracks |-> clonedTracks, trackCaptureMap |-> trackCaptureMap,
   liveClones |-> liveClones, audioContext |-> audioContext,
   workletReady |-> workletReady, promises |-> promises, tasks |-> tasks,
   registrations |-> registrations, orphans |-> orphans,
   inputAnalyser |-> inputAnalyser, outputAnalyser |-> outputAnalyser,
   returned |-> NoReturn, micCalls |-> micCalls,
   errorListener |-> errorListener, emitted |-> <<>>, threw |-> FALSE,
   released |-> {}, resolvable |-> {}, overflow |-> FALSE, subscribed |-> subscribed]

\* an element nothing refers to any more is reclaimed
Collect(s) ==
  [s EXCEPT !.elems = SelectSeq(@, LAMBDA el : el.attached \/ el.inDOM \/ el.live)]

\* a promise nobody holds any more is reclaimed
CollectPromises(s) ==
  [s EXCEPT !.promises =
     [p \in DOMAIN s.promises |->
        IF s.workletReady # p /\ ~\E k \in DOMAIN s.tasks : s.tasks[k].promise = p
          THEN "free" ELSE s.promises[p]]]

Commit(s0, op) ==
  LET s == CollectPromises(Collect(s0)) IN
  /\ trackStats' = s.trackStats
  /\ elems' = s.elems
  /\ volume' = s.volume
  /\ room' = s.room
  /\ audioCaptureEnabled' = s.audioCaptureEnabled
  /\ audioCaptureOptions' = s.audioCaptureOptions
  /\ recorders' = s.recorders
  /\ processors' = s.processors
  /\ sourceNodes' = s.sourceNodes
  /\ clonedTracks' = s.clonedTracks
  /\ trackCaptureMap' = s.trackCaptureMap
  /\ liveClones' = s.liveClones
  /\ audioContext' = s.audioContext
  /\ workletReady' = s.workletReady
  /\ promises' = s.promises
  /\ tasks' = s.tasks
  /\ registrations' = s.registrations
  /\ orphans' = s.orphans
  /\ inputAnalyser' = s.inputAnalyser
  /\ outputAnalyser' = s.outputAnalyser
  /\ returned' = s.returned
  /\ micCalls' = s.micCalls
  /\ errorListener' = s.errorListener
  /\ emitted' = s.emitted
  /\ threw' = s.threw
  /\ released' = s.released
  /\ resolvable' = s.resolvable
  /\ lastOp' = op
  /\ subscribed' = s.subscribed
  /\ chunks' = DropRecorders(chunks, late, s.recorders)
  /\ UNCHANGED <<convIn, convOut, dspVars, late, agentVars>>

(***************************************************************************)
(* EventEmitter                                                            *)
(***************************************************************************)
\* emit(type, ...): listenerThrows = a listener of this event throws.
\* emit('error') without an 'error' listener throws the error itself.
Emit(s, ev, listenerThrows) ==
  IF s.threw THEN s
  ELSE [s EXCEPT !.emitted = Append(@, ev),
                 !.threw = listenerThrows \/ (ev.type = "error" /\ ~s.errorListener)]

(***************************************************************************)
(* Track registry                                                          *)
(***************************************************************************)
HasKey(m, k) == \E i \in DOMAIN m : m[i].trackId = k

\* a variant that keeps the entry an existing key has
MapSet_KeepsFirst(m, rec) ==
  IF HasKey(m, rec.trackId) THEN m ELSE Append(m, rec)

\* a variant that never replaces
MapSet_AppendOnly(m, rec) == Append(m, rec)

\* Map.prototype.set: an existing key keeps its position
MapSet(m, rec) ==
  IF HasKey(m, rec.trackId)
    THEN [i \in DOMAIN m |-> IF m[i].trackId = rec.trackId THEN rec ELSE m[i]]
    ELSE Append(m, rec)

\* Map.prototype.delete
MapDelete(m, k) == SelectSeq(m, LAMBDA r : r.trackId # k)

\* a variant that stores no track source with the record
TrackRecord_NoSource(t) ==
  [trackId |-> TrackKey(t), kind |-> TrackKind(t),
   participant |-> ParticipantName(t), publication |-> t,
   source |-> GetTrackSourceString("Unknown")]

TrackRecord(t) ==
  [trackId |-> TrackKey(t), kind |-> TrackKind(t),
   participant |-> ParticipantName(t), publication |-> t,
   source |-> GetTrackSourceString(TrackSourceEnum(t))]

RecordTrackStats(s, t) ==
  [s EXCEPT !.trackStats = MapSet(@, TrackRecord(t))]

\* a variant that deletes under the stable id only
CleanupTrackMetadata_SidOnly(s, t) ==
  [s EXCEPT !.trackStats = MapDelete(@, TrackSid(t))]

CleanupTrackMetadata(s, t) ==
  [s EXCEPT !.trackStats = MapDelete(@, TrackKey(t))]

GetTrackStats ==
  [totalTracks |-> Len(trackStats), activeTracks |-> Len(trackStats),
   audioElements |-> Cardinality(AudioElements(Cur)),
   trackDetails |-> [i \in DOMAIN trackStats |-> <<trackStats[i].trackId, trackStats[i]>>]]

(***************************************************************************)
(* Playback sinks                                                          *)
(***************************************************************************)
HasFreeSlot(s) == Len(s.elems) < MaxElems

\* a variant without the isCurrentlySpeaking test
OnPlay_NoDedup(s, e) ==
  Emit([s EXCEPT !.elems[e].speaking = TRUE], Ev("speaking", "", e), FALSE)

\* the listeners #setupAudioMonitoring installs on the element
OnPlay(s, e) ==
  IF ~s.elems[e].speaking
    THEN Emit([s EXCEPT !.elems[e].speaking = TRUE], Ev("speaking", "", e), FALSE)
    ELSE s

\* a variant that, like play, acts only on a change of state
OnPause_OnlyWhenSpeaking(s, e) ==
  IF s.elems[e].speaking
    THEN Emit([s EXCEPT !.elems[e].speaking = FALSE], Ev("listening", "", e), FALSE)
    ELSE s

OnPause(s, e) ==
  Emit([s EXCEPT !.elems[e].speaking = FALSE], Ev("listening", "", e), FALSE)

OnEnded(s, e) ==
  Emit([s EXCEPT !.elems[e].speaking = FALSE], Ev("listening", "", e), FALSE)

EmitTrackSubscribed(s, t, env) ==
  Emit(s, Ev("trackSubscribed", TrackKey(t), 0), env.listenerThrows)

\* document.body.appendChild may throw; the error is ignored
AttachAudioElementToDOM(s, e, env) ==
  IF s.threw \/ e \in env.domFail THEN s ELSE [s EXCEPT !.elems[e].inDOM = TRUE]


(***************************************************************************)
(* Audio capture                                                           *)
(***************************************************************************)
NoOptions == [set |-> FALSE, source |-> "", trackSourceFilter |-> "", format |-> ""]

\* Map.prototype.set / has on the capture maps (sets of entries, one per key)
Keys(m) == {r.key : r \in m}

Put(m, rec) == {r \in m : r.key # rec.key} \cup {rec}

\* the first publication of the room whose track matches the id;
\* env.published: the tracks the room's publications hold during the call
GetTrackById(s, trackId, env) ==
  LET Match(t) == /\ t \in env.published
                  /\ \/ TrackSid(t) = trackId
                     \/ TrackHasMedia(t) /\ TrackMediaId(t) = trackId
      matches == {i \in DOMAIN LookupOrder : Match(LookupOrder[i])}
  IN IF ~s.room \/ matches = {} THEN ""
     ELSE LookupOrder[CHOOSE i \in matches : \A j \in matches : i <= j]

\* AudioContext construction: env.ctx is what the platform can build
\* ("worklet": with audioWorklet, "legacy": without, "none": nothing)
EnsureAudioContext(s, env) ==
  IF s.audioContext # "none" THEN s
  ELSE [s EXCEPT !.audioContext = env.ctx, !.registrations = 0]

SetupScriptProcessorCapture(s, trackId, env) ==
  IF trackId \in env.nodeFail
    THEN s   \* caught and logged
    ELSE [s EXCEPT !.sourceNodes = @ \cup {trackId},
                   !.processors = Put(Put(@, [key |-> <<trackId, "">>, kind |-> "script"]),
                                      [key |-> <<trackId, "_gain">>, kind |-> "gain"])]

\* #setupAudioWorkletCapture up to its await
SetupAudioWorkletCaptureStart(s, trackId, participant, source, format) ==
  LET free == {p \in DOMAIN s.promises : s.promises[p] = "free"}
      p == IF s.workletReady # 0 THEN s.workletReady
           ELSE IF free = {} THEN 0
           ELSE CHOOSE q \in free : \A r \in free : q <= r
      s1 == IF s.workletReady # 0 \/ p = 0 THEN s
            ELSE [s EXCEPT !.workletReady = p, !.promises[p] = "pending",
                           !.registrations = @ + 1]
  IN IF p = 0 \/ Len(s.tasks) >= MaxTasks \/ s1.registrations > MaxRegistrations
       THEN [s EXCEPT !.overflow = TRUE]
     ELSE [s1 EXCEPT !.tasks = Append(@, [trackId |-> trackId, participant |-> participant,
                                          source |-> source, format |-> format,
                                          promise |-> p])]

SetupPCMCapture(s, trackId, participant, source, format, env) ==
  IF ~s.audioCaptureOptions.set THEN s
  ELSE LET s1 == EnsureAudioContext(s, env) IN
       IF s1.audioContext = "none"
         THEN Emit(s1, Ev("error", "pcm", 0), env.listenerThrows)
       ELSE IF s1.audioContext = "worklet"
         THEN SetupAudioWorkletCaptureStart(s1, trackId, participant, source, format)
       ELSE SetupScriptProcessorCapture(s1, trackId, env)

SetupEncodedCapture(s, trackId, env) ==
  IF ~s.audioCaptureOptions.set THEN s
  ELSE IF trackId \in env.recFail
    THEN Emit(s, Ev("error", "encoded", 0), env.listenerThrows)
    ELSE [s EXCEPT !.recorders = @ \cup {trackId}]

\* a variant that sets capture up without resolving the stream handle
SetupTrackCapture_NoLookup(s, trackId, participant, source, format, env) ==
  IF s.threw \/ ~s.audioCaptureOptions.set THEN s
  ELSE IF trackId \in Keys(s.trackCaptureMap) THEN s
  ELSE LET s1 == [s EXCEPT
                    !.trackCaptureMap = Put(@, [key |-> trackId, participant |-> participant,
                                                source |-> source]),
                    !.liveClones[trackId] = @ + 1,
                    !.clonedTracks = @ \cup {trackId}]
       IN IF format = "opus-webm"
            THEN SetupEncodedCapture(s1, trackId, env)
            ELSE SetupPCMCapture(s1, trackId, participant, source, format, env)

\* a variant without the trackCaptureMap.has guard
SetupTrackCapture_NoDedupe(s, trackId, participant, source, format, env) ==
  LET track == GetTrackById(s, trackId, env) IN
  IF s.threw \/ ~s.audioCaptureOptions.set THEN s
  ELSE IF track = "" \/ ~TrackHasMedia(track) THEN s
  ELSE LET s1 == [s EXCEPT
                    !.trackCaptureMap = Put(@, [key |-> trackId, participant |-> participant,
                                                source |-> source]),
                    !.liveClones[trackId] = @ + 1,
                    !.clonedTracks = @ \cup {trackId}]
       IN IF format = "opus-webm"
            THEN SetupEncodedCapture(s1, trackId, env)
            ELSE SetupPCMCapture(s1, trackId, participant, source, format, env)

SetupTrackCapture(s, trackId, participant, source, format, env) ==
  LET track == GetTrackById(s, trackId, env) IN
  IF s.threw \/ ~s.audioCaptureOptions.set THEN s
  ELSE IF track = "" \/ ~TrackHasMedia(track) THEN s
  ELSE IF trackId \in Keys(s.trackCaptureMap) THEN s
  ELSE LET s1 == [s EXCEPT
                    !.trackCaptureMap = Put(@, [key |-> trackId, participant |-> participant,
                                                source |-> source]),
                    !.liveClones[trackId] = @ + 1,
                    !.clonedTracks = @ \cup {trackId}]
       IN IF format = "opus-webm"
            THEN SetupEncodedCapture(s1, trackId, env)
            ELSE SetupPCMCapture(s1, trackId, participant, source, format, env)

IsAgentName(name) == Includes(ToLowerCase(name), AgentWord)

\* a variant that skips the participant-source test
SetupAudioCaptureIfEnabled_AnySource(s, t, env) ==
  LET trackSource == IF IsAgentName(TrackIdentity(t)) THEN "agent" ELSE "user"
      o == s.audioCaptureOptions
  IN IF s.threw \/ ~(s.audioCaptureEnabled /\ o.set) THEN s
     ELSE IF o.trackSourceFilter # "all"
             /\ o.trackSourceFilter # GetTrackSourceString(TrackSourceEnum(t)) THEN s
     ELSE SetupTrackCapture(s, TrackKey(t), ParticipantName(t), trackSource, o.format, env)

SetupAudioCaptureIfEnabled(s, t, env) ==
  LET trackSource == IF IsAgentName(TrackIdentity(t)) THEN "agent" ELSE "user"
      o == s.audioCaptureOptions
  IN IF s.threw \/ ~(s.audioCaptureEnabled /\ o.set) THEN s
     ELSE IF o.source # "both" /\ o.source # trackSource THEN s
     ELSE IF o.trackSourceFilter # "all"
             /\ o.trackSourceFilter # GetTrackSourceString(TrackSourceEnum(t)) THEN s
     ELSE SetupTrackCapture(s, TrackKey(t), ParticipantName(t), trackSource, o.format, env)

\* the loop of #setupExistingTrackCapture over trackStats.entries(), from entry i
RECURSIVE SetupExistingFrom(_, _, _)
SetupExistingFrom(s, i, env) ==
  IF i > Len(s.trackStats) \/ s.threw THEN s
  ELSE LET trackData == s.trackStats[i]
           trackSource == IF IsAgentName(trackData.participant) THEN "agent" ELSE "user"
           o == s.audioCaptureOptions
           s1 == IF o.source # "both" /\ o.source # trackSource THEN s
                 ELSE IF o.trackSourceFilter # "all"
                         /\ o.trackSourceFilter # trackData.source THEN s
                 ELSE SetupTrackCapture(s, trackData.trackId, trackData.participant,
                                        trackSource, o.format, env)
       IN SetupExistingFrom(s1, i + 1, env)

\* a variant whose loop passes over the first entry of the registry
SetupExistingTrackCapture_SkipsFirst(s, env) ==
  IF ~s.audioCaptureOptions.set THEN s ELSE SetupExistingFrom(s, 2, env)

SetupExistingTrackCapture(s, env) ==
  IF ~s.audioCaptureOptions.set THEN s ELSE SetupExistingFrom(s, 1, env)

\* the capture resources the manager holds
Res(kind, key) == [kind |-> kind, key |-> key]

Held(s) ==
  {Res("recorder", <<k, "">>) : k \in s.recorders}
    \cup {Res("processor", r.key) : r \in s.processors}
    \cup {Res("source", <<k, "">>) : k \in s.sourceNodes}
    \cup {Res("clone", <<k, "">>) : k \in s.clonedTracks}

\* a variant that leaves the source nodes in their map
CleanupAudioCapture_KeepsSourceNodes(s, env) ==
  [s EXCEPT !.workletReady = 0,
            !.released = Held(s),
            !.recorders = {},
            !.processors = {},
            !.liveClones = [k \in DOMAIN @ |-> IF k \in s.clonedTracks THEN @[k] - 1 ELSE @[k]],
            !.clonedTracks = {},
            !.trackCaptureMap = {},
            !.audioContext = "none"]

\* a variant with one try around each loop: the first stop() / disconnect()
\* that throws (env.stopFail: the kinds that do) ends the teardown
CleanupAudioCapture_FirstFailureEnds(s, env) ==
  LET Kinds == <<"recorder", "processor", "source", "clone">>
      failing == {i \in 1..4 : Kinds[i] \in env.stopFail
                                /\ \E r \in Held(s) : r.kind = Kinds[i]}
      reached == IF failing = {} THEN 5
                 ELSE CHOOSE i \in failing : \A j \in failing : i <= j
      done(i) == i < reached
  IN [s EXCEPT !.workletReady = 0,
               !.released = {r \in Held(s) : \E i \in 1..4 : Kinds[i] = r.kind /\ i <= reached},
               !.recorders = IF done(1) THEN {} ELSE @,
               !.processors = IF done(2) THEN {} ELSE @,
               !.sourceNodes = IF done(3) THEN {} ELSE @,
               !.liveClones = [k \in DOMAIN @ |->
                                 IF k \in s.clonedTracks /\ reached >= 4
                                   THEN @[k] - 1 ELSE @[k]],
               !.clonedTracks = IF done(4) THEN {} ELSE @,
               !.trackCaptureMap = IF done(4) THEN {} ELSE @,
               !.audioContext = IF done(4) THEN "none" ELSE @,
               !.threw = ~done(4)]

\* stop / disconnect errors are ignored one by one (env.stopFail: the kinds of
\* resource whose stop() / disconnect() throws)
CleanupAudioCapture(s, env) ==
  [s EXCEPT !.workletReady = 0,
            !.released = Held(s),
            !.recorders = {},
            !.processors = {},
            !.sourceNodes = {},
            !.liveClones = [k \in DOMAIN @ |-> IF k \in s.clonedTracks THEN @[k] - 1 ELSE @[k]],
            !.clonedTracks = {},
            !.trackCaptureMap = {},
            !.audioContext = "none"]


(***************************************************************************)
(* Handlers                                                                *)
(***************************************************************************)
\* a variant that mounts the sink before it announces the subscription
SetupAudioElement_MountsFirst(s, t, env) ==
  IF ~env.attachOk THEN s
  ELSE IF ~HasFreeSlot(s) THEN [s EXCEPT !.overflow = TRUE]
  ELSE LET e == Len(s.elems) + 1
           s1 == [s EXCEPT !.elems = Append(@, [track |-> t, attached |-> TRUE,
                                                volume |-> s.volume, inDOM |-> FALSE,
                                                speaking |-> FALSE, live |-> TRUE])]
           s2 == AttachAudioElementToDOM(s1, e, env)
           s3 == EmitTrackSubscribed(s2, t, env)
       IN SetupAudioCaptureIfEnabled(s3, t, env)

\* a variant whose new sink keeps the platform's full volume
SetupAudioElement_FullVolume(s, t, env) ==
  IF ~env.attachOk THEN s
  ELSE IF ~HasFreeSlot(s) THEN [s EXCEPT !.overflow = TRUE]
  ELSE LET e == Len(s.elems) + 1
           s1 == [s EXCEPT !.elems = Append(@, [track |-> t, attached |-> TRUE,
                                                volume |-> MAX_VOLUME, inDOM |-> FALSE,
                                                speaking |-> FALSE, live |-> TRUE])]
           s2 == EmitTrackSubscribed(s1, t, env)
           s3 == AttachAudioElementToDOM(s2, e, env)
       IN SetupAudioCaptureIfEnabled(s3, t, env)

SetupAudioElement(s, t, env) ==
  IF ~env.attachOk THEN s   \* track.attach() yielded nothing
  ELSE IF ~HasFreeSlot(s) THEN [s EXCEPT !.overflow = TRUE]
  ELSE LET e == Len(s.elems) + 1
           s1 == [s EXCEPT !.elems = Append(@, [track |-> t, attached |-> TRUE,
                                                volume |-> s.volume, inDOM |-> FALSE,
                                                speaking |-> FALSE, live |-> TRUE])]
           s2 == EmitTrackSubscribed(s1, t, env)
           s3 == AttachAudioElementToDOM(s2, e, env)
       IN SetupAudioCaptureIfEnabled(s3, t, env)

\* a variant that ends the subscription when no sink was made
HandleTrackSubscribedH_NeedsSink(s, t, env) ==
  IF TrackKind(t) = "audio" /\ env.attachOk
    THEN SetupAudioCaptureIfEnabled(SetupAudioElement(RecordTrackStats(s, t), t, env), t, env)
    ELSE s

\* a variant that makes the sink and the session without recording the stream
HandleTrackSubscribedH_NoRecord(s, t, env) ==
  IF TrackKind(t) = "audio"
    THEN SetupAudioCaptureIfEnabled(SetupAudioElement(s, t, env), t, env)
    ELSE s

HandleTrackSubscribedH(s, t, env) ==
  IF TrackKind(t) = "audio"
    THEN SetupAudioCaptureIfEnabled(SetupAudioElement(RecordTrackStats(s, t), t, env), t, env)
    ELSE s

HandleLocalTrackPublishedH(s, t, env) ==
  IF TrackKind(t) = "audio"
    THEN SetupAudioCaptureIfEnabled(RecordTrackStats(s, t), t, env)
    ELSE s

\* a variant whose removal failure keeps the element in the live-sink set
DetachTrackElements_FailureKeeps(s, t, env) ==
  LET detached == {e \in DOMAIN s.elems : s.elems[e].track = t /\ s.elems[e].attached} IN
  [s EXCEPT !.elems = [e \in DOMAIN @ |->
                         IF e \in detached
                           THEN [@[e] EXCEPT !.attached = FALSE,
                                             !.inDOM = @ /\ e \in env.domFail,
                                             !.live = @ /\ e \in env.domFail]
                           ELSE @[e]]]

\* track.detach() hands back every element attached to the track
DetachTrackElements(s, t, env) ==
  LET detached == {e \in DOMAIN s.elems : s.elems[e].track = t /\ s.elems[e].attached} IN
  [s EXCEPT !.elems = [e \in DOMAIN @ |->
                         IF e \in detached
                           THEN [@[e] EXCEPT !.attached = FALSE,
                                             !.inDOM = @ /\ e \in env.domFail,
                                             !.live = FALSE]
                           ELSE @[e]]]

HandleTrackUnsubscribedH(s, t, env) ==
  IF TrackKind(t) # "audio" THEN s
  ELSE Emit(DetachTrackElements(CleanupTrackMetadata(s, t), t, env),
            Ev("trackUnsubscribed", TrackKey(t), 0), env.listenerThrows)

\* Number(volume) for the values a caller can pass
ToNumber(v) ==
  CASE v.kind = "number" -> [finite |-> TRUE, num |-> v.num]
    [] v.kind = "numericString" -> [finite |-> TRUE, num |-> v.num]
    [] v.kind = "true" -> [finite |-> TRUE, num |-> 1 * VolUnit]
    [] v.kind = "false" -> [finite |-> TRUE, num |-> 0]
    [] v.kind = "null" -> [finite |-> TRUE, num |-> 0]
    [] OTHER -> [finite |-> FALSE, num |-> 0]  \* NaN, +/-Infinity, undefined, "abc"

\* a variant that forgets the lower bound
SetVolumeH_NoLowerBound(s, v, env) ==
  LET numVolume == ToNumber(v)
      s1 == [s EXCEPT !.volume = IF numVolume.finite
                                   THEN Min2(MAX_VOLUME, numVolume.num)
                                   ELSE DEFAULT_VOLUME]
      rejecting == AudioElements(s1) \cap env.volumeFail
      s2 == [s1 EXCEPT !.elems = [e \in DOMAIN @ |->
                                    IF e \in AudioElements(s1)
                                       /\ \A r \in rejecting : e < r
                                      THEN [@[e] EXCEPT !.volume = s1.volume]
                                      ELSE @[e]],
                       !.threw = rejecting # {}]
      s3 == IF s2.threw THEN s2
            ELSE Emit(s2, Ev("volumeChanged", "", s2.volume), env.listenerThrows)
  IN IF s3.threw
       THEN Emit([s3 EXCEPT !.threw = FALSE], Ev("error", "volume", 0), FALSE)
       ELSE s3

SetVolumeH(s, v, env) ==
  LET numVolume == ToNumber(v)
      s1 == [s EXCEPT !.volume = IF numVolume.finite
                                   THEN Min2(MAX_VOLUME, Max2(MIN_VOLUME, numVolume.num))
                                   ELSE DEFAULT_VOLUME]
      rejecting == AudioElements(s1) \cap env.volumeFail
      s2 == [s1 EXCEPT !.elems = [e \in DOMAIN @ |->
                                    IF e \in AudioElements(s1)
                                       /\ \A r \in rejecting : e < r
                                      THEN [@[e] EXCEPT !.volume = s1.volume]
                                      ELSE @[e]],
                       !.threw = rejecting # {}]
      s3 == IF s2.threw THEN s2
            ELSE Emit(s2, Ev("volumeChanged", "", s2.volume), env.listenerThrows)
  IN IF s3.threw
       THEN Emit([s3 EXCEPT !.threw = FALSE], Ev("error", "volume", 0), FALSE)
       ELSE s3

\* the local participant has a microphone publication with a media track
HasMicrophone(s, env) == s.room /\ "tL" \in env.published

InitializeInputAnalyser(s, env) ==
  LET s1 == EnsureAudioContext(s, env) IN
  IF s1.audioContext = "none" \/ ~HasMicrophone(s1, env) THEN s1
  ELSE [s1 EXCEPT !.inputAnalyser = ~env.createFails]

\* the analyser taps the first element of audioElements
InitializeOutputAnalyser(s, env) ==
  LET s1 == EnsureAudioContext(s, env) IN
  IF s1.audioContext = "none" \/ AudioElements(s1) = {} THEN s1
  ELSE [s1 EXCEPT !.outputAnalyser = ~env.createFails]

RECURSIVE SumSeq(_)
SumSeq(q) == IF q = <<>> THEN 0 ELSE Head(q) + SumSeq(Tail(q))

\* average of the bytes over BYTE_MAX, clamped to MIN_VOLUME..MAX_VOLUME
LevelOf(data) ==
  LET unit == Len(data) * BYTE_MAX
      sum == SumSeq(data)
  IN Returned(IF sum < 0 THEN 0 ELSE IF sum > unit THEN unit ELSE sum, unit, <<>>)

\* a variant without the outer try / catch
GetInputVolumeH_NoCatch(s, env) ==
  LET s1 == IF s.inputAnalyser THEN s ELSE InitializeInputAnalyser(s, env) IN
  IF ~s1.inputAnalyser THEN [s1 EXCEPT !.returned = Returned(MIN_VOLUME, 1, <<>>)]
  ELSE IF env.readFails THEN [s1 EXCEPT !.threw = TRUE]
  ELSE IF env.bins = <<>> THEN [s1 EXCEPT !.returned = Returned(MIN_VOLUME, 1, <<>>)]
  ELSE [s1 EXCEPT !.returned = LevelOf(env.bins)]

GetInputVolumeH(s, env) ==
  LET s1 == IF s.inputAnalyser THEN s ELSE InitializeInputAnalyser(s, env) IN
  IF ~s1.inputAnalyser \/ env.readFails \/ env.bins = <<>>
    THEN [s1 EXCEPT !.returned = Returned(MIN_VOLUME, 1, <<>>)]
    ELSE [s1 EXCEPT !.returned = LevelOf(env.bins)]

GetOutputVolumeH(s) == [s EXCEPT !.returned = Returned(s.volume, MAX_VOLUME, <<>>)]

GetInputByteFrequencyDataH(s, env) ==
  LET s1 == IF s.inputAnalyser THEN s ELSE InitializeInputAnalyser(s, env) IN
  IF ~s1.inputAnalyser \/ env.readFails
    THEN [s1 EXCEPT !.returned = Returned(0, 1, <<>>)]
    ELSE [s1 EXCEPT !.returned = Returned(0, 1, env.bins)]

GetOutputByteFrequencyDataH(s, env) ==
  LET s1 == IF s.outputAnalyser THEN s ELSE InitializeOutputAnalyser(s, env) IN
  IF ~s1.outputAnalyser \/ env.readFails
    THEN [s1 EXCEPT !.returned = Returned(0, 1, <<>>)]
    ELSE [s1 EXCEPT !.returned = Returned(0, 1, env.bins)]

\* #emitMicControlError: an error event only when somebody listens for it
EmitMicControlError(s, muted) ==
  IF s.errorListener THEN Emit(s, Ev("error", "mic", 0), FALSE) ELSE s

\* #emitMicEventSafely: a listener that throws becomes an error event
EmitMicEventSafely(s, muted, env) ==
  LET s1 == Emit(s, Ev(IF muted THEN "micMuted" ELSE "micUnmuted", "", 0),
                 env.listenerThrows)
  IN IF s1.threw THEN EmitMicControlError([s1 EXCEPT !.threw = FALSE], muted) ELSE s1

\* a variant that announces the new state without waiting for the promise
SetMicMutedH_AnnouncesAtOnce(s, muted, mic, env) ==
  IF ~s.room THEN EmitMicEventSafely(s, muted, env)
  ELSE IF mic = "throws" THEN EmitMicControlError(s, muted)
  ELSE IF mic = "async"
    THEN IF Len(s.micCalls) >= MaxMicCalls THEN [s EXCEPT !.overflow = TRUE]
         ELSE EmitMicEventSafely([s EXCEPT !.micCalls = Append(@, muted)], muted, env)
  ELSE EmitMicEventSafely(s, muted, env)

\* mic: what localParticipant.setMicrophoneEnabled does ("async": returns a
\* promise, "sync": returns no promise, "throws": throws)
SetMicMutedH(s, muted, mic, env) ==
  IF ~s.room THEN EmitMicEventSafely(s, muted, env)
  ELSE IF mic = "throws" THEN EmitMicControlError(s, muted)
  ELSE IF mic = "async"
    THEN IF Len(s.micCalls) >= MaxMicCalls THEN [s EXCEPT !.overflow = TRUE]
         ELSE [s EXCEPT !.micCalls = Append(@, muted)]
  ELSE EmitMicEventSafely(s, muted, env)

\* the then / catch callbacks of the promise of call i
MicSettlesH(s, i, ok, env) ==
  LET muted == s.micCalls[i]
      s1 == [s EXCEPT !.micCalls = SubSeq(@, 1, i - 1) \o SubSeq(@, i + 1, Len(@))]
  IN IF ok THEN EmitMicEventSafely(s1, muted, env) ELSE EmitMicControlError(s1, muted)

\* a variant that arms before it validates the callback
EnableAudioCaptureH_ArmsFirst(s, options, env) ==
  IF ~options.callback THEN [s EXCEPT !.threw = TRUE, !.audioCaptureEnabled = TRUE]
  ELSE SetupExistingTrackCapture(
         [s EXCEPT !.audioCaptureEnabled = TRUE,
                   !.audioCaptureOptions =
                      [set |-> TRUE,
                       source |-> IF options.source = "" THEN "agent" ELSE options.source,
                       trackSourceFilter |-> IF options.trackSourceFilter = ""
                                               THEN "microphone"
                                               ELSE options.trackSourceFilter,
                       format |-> IF options.format = "" THEN DEFAULT_AUDIO_FORMAT
                                  ELSE options.format]],
         env)

EnableAudioCaptureH(s, options, env) ==
  IF ~options.callback THEN [s EXCEPT !.threw = TRUE]
  ELSE SetupExistingTrackCapture(
         [s EXCEPT !.audioCaptureEnabled = TRUE,
                   !.audioCaptureOptions =
                      [set |-> TRUE,
                       source |-> IF options.source = "" THEN "agent" ELSE options.source,
                       trackSourceFilter |-> IF options.trackSourceFilter = ""
                                               THEN "microphone"
                                               ELSE options.trackSourceFilter,
                       format |-> IF options.format = "" THEN DEFAULT_AUDIO_FORMAT
                                  ELSE options.format]],
         env)

\* a variant that tears the sessions down but stays armed
DisableAudioCaptureH_StaysArmed(s, env) ==
  [CleanupAudioCapture(s, env) EXCEPT !.workletReady = 0]

DisableAudioCaptureH(s, env) ==
  [CleanupAudioCapture([s EXCEPT !.audioCaptureEnabled = FALSE], env)
     EXCEPT !.audioCaptureOptions = NoOptions, !.workletReady = 0]

\* a variant that disarms capture as disableAudioCapture does
CleanupH_Disarms(s, env) ==
  LET s1 == DisableAudioCaptureH(s, env) IN
  [s1 EXCEPT !.elems = [e \in DOMAIN @ |->
                          IF e \in AudioElements(s1)
                            THEN [@[e] EXCEPT !.inDOM = @ /\ e \in env.domFail,
                                              !.live = FALSE]
                            ELSE @[e]],
             !.trackStats = <<>>]

CleanupH(s, env) ==
  LET s1 == CleanupAudioCapture(s, env) IN
  [s1 EXCEPT !.elems = [e \in DOMAIN @ |->
                          IF e \in AudioElements(s1)
                            THEN [@[e] EXCEPT !.inDOM = @ /\ e \in env.domFail,
                                              !.live = FALSE]
                            ELSE @[e]],
             !.trackStats = <<>>]

\* an audio node of the stream key, and whether it was connected to another
Node(key, kind, connected) == [key |-> key, kind |-> kind, connected |-> connected]

\* the rest of #setupAudioWorkletCapture, after the await.  env.failsAt is the
\* statement that throws when env.workletFails: "source" (createMediaStreamSource),
\* "node" (new AudioWorkletNode) or "gain" (createGain and the connections
\* after the nodes were stored)
ContinueWorkletH(s, i, env) ==
  LET task == s.tasks[i]
      k == task.trackId
      s1 == [s EXCEPT !.tasks = SubSeq(@, 1, i - 1) \o SubSeq(@, i + 1, Len(@))]
      stored == [s1 EXCEPT !.sourceNodes = @ \cup {k},
                           !.processors = Put(@, [key |-> <<k, "">>, kind |-> "worklet"])]
      Fallback(t) == SetupScriptProcessorCapture([t EXCEPT !.workletReady = 0], k, env)
  IN IF s.promises[task.promise] # "resolved" THEN Fallback(s1)
     ELSE IF ~env.workletFails
       THEN [stored EXCEPT !.processors = Put(@, [key |-> <<k, "_gain">>, kind |-> "gain"])]
     ELSE IF env.failsAt = "source" THEN Fallback(s1)
     ELSE IF env.failsAt = "node"
       THEN Fallback([s1 EXCEPT !.orphans = @ \cup {Node(k, "source", FALSE)}])
     ELSE LET s2 == Fallback(stored) IN
          IF [key |-> <<k, "">>, kind |-> "script"] \in s2.processors
            THEN [s2 EXCEPT !.orphans = @ \cup {Node(k, "source", TRUE),
                                                Node(k, "worklet", TRUE)}]
            ELSE s2


(***************************************************************************)
(* Inputs and platform outcomes the actions draw from                      *)
(***************************************************************************)
\* what the platform does during one call
NoFault ==
  [attachOk |-> TRUE, domFail |-> {}, listenerThrows |-> FALSE, recFail |-> {},
   nodeFail |-> {}, workletFails |-> FALSE, ctx |-> "worklet", published |-> Tracks,
   stopFail |-> {}, volumeFail |-> {}, bins |-> [i \in 1..NBins |-> 0],
   createFails |-> FALSE, readFails |-> FALSE, failsAt |-> "source"]

CtxKinds == {"worklet", "legacy", "none"}

\* the outcomes a specification lets the platform choose from
Envs(attach, listener, dom, fail, worklet, ctx, pub) ==
  {[attachOk |-> a, domFail |-> d, listenerThrows |-> l, recFail |-> f, nodeFail |-> f,
    workletFails |-> w, ctx |-> c, published |-> p, stopFail |-> {},
    volumeFail |-> {}, bins |-> [i \in 1..NBins |-> 0], createFails |-> FALSE,
    readFails |-> FALSE, failsAt |-> "source"] :
     a \in attach, l \in listener, d \in dom, f \in fail, w \in worklet, c \in ctx,
     p \in pub}

\* the same outcomes, with stop() / disconnect() throwing on the resources of
\* the kinds in one of the sets of kinds
WithStopFail(envs, kindSets) ==
  {[e EXCEPT !.stopFail = k] : e \in envs, k \in kindSets}

\* the same outcomes, with an analyser that hands out one of the byte arrays,
\* whose creation may throw and whose read may throw
WithAnalysis(envs, arrays, create, read) ==
  {[e EXCEPT !.bins = a, !.createFails = c, !.readFails = r] :
     e \in envs, a \in arrays, c \in create, r \in read}

\* the same outcomes where nothing fails, and those where the off-thread
\* setup fails, with the failure at one of the steps
WithFailsAt(envs, steps) ==
  {e \in envs : ~e.workletFails}
    \cup {[e EXCEPT !.failsAt = st] : e \in {x \in envs : x.workletFails}, st \in steps}

\* the same outcomes, with the sinks of one of the sets rejecting a volume
WithVolumeFail(envs, sinkSets) ==
  {[e EXCEPT !.volumeFail = k] : e \in envs, k \in sinkSets}

VolumeNumbers == {0 - VolUnit, 0, 1, VolUnit, 2 * VolUnit}

VolumeInputs ==
  [kind : {"number"}, num : VolumeNumbers]
    \cup [kind : {"numericString"}, num : {1}]
    \cup [kind : {"NaN", "Infinity", "-Infinity", "undefined", "otherString",
                  "true", "false", "null"}, num : {0}]

CaptureInputs ==
  [callback : {TRUE}, source : {"", "user", "both"}, trackSourceFilter : {"", "all"},
   format : {"", "pcm-f32"}]
    \cup [callback : {FALSE}, source : {"both"}, trackSourceFilter : {"all"}, format : {""}]

(***************************************************************************)
(* Initial state: a freshly constructed manager                            *)
(***************************************************************************)
\* new ScreenWakeLock(): no sentinel, nothing requested
NewScreenWakeLock == [held |-> FALSE, acquiring |-> 0, releasing |-> FALSE]

\* new HamsaVoiceAgent(apiKey): webSocketManager and jobId are null
NewAgent ==
  [webSocketManager |-> FALSE, jobId |-> "", starting |-> "idle",
   wakeLockManager |-> NewScreenWakeLock, call |-> "none", event |-> "none"]

\* no getJobDetails call has been made
NoJob ==
  [pc |-> "idle", url |-> "", maxRetries |-> 0, initialRetryInterval |-> 0,
   backoffFactor |-> 0, currentInterval |-> 0, attempt |-> 0, requests |-> 0,
   waits |-> <<>>, completedAt |-> 0, settled |-> "none"]

InitManager ==
  /\ trackStats = <<>>
  /\ elems = <<>>
  /\ volume = MAX_VOLUME
  /\ room = FALSE
  /\ audioCaptureEnabled = FALSE
  /\ audioCaptureOptions = NoOptions
  /\ recorders = {}
  /\ processors = {}
  /\ sourceNodes = {}
  /\ clonedTracks = {}
  /\ trackCaptureMap = {}
  /\ liveClones = [k \in StreamKeys |-> 0]
  /\ audioContext = "none"
  /\ workletReady = 0
  /\ promises = [p \in 1..MaxPromises |-> "free"]
  /\ tasks = <<>>
  /\ registrations = 0
  /\ orphans = {}
  /\ inputAnalyser = FALSE
  /\ outputAnalyser = FALSE
  /\ returned = NoReturn
  /\ micCalls = <<>>
  /\ errorListener \in BOOLEAN
  /\ emitted = <<>>
  /\ threw = FALSE
  /\ released = {}
  /\ resolvable = {}
  /\ lastOp = Op("new", "", 0)
  /\ subscribed = {}
  /\ chunks = <<>>
  /\ late = <<>>
  /\ agent = NewAgent
  /\ job = NoJob

\* new PCMProcessor({processorOptions: {bufferSize}})
PCMProcessorNew(bufferSize) ==
  [bufferSize |-> bufferSize, buffer |-> [i \in 1..bufferSize |-> 0], index |-> 0]

\* audioContext.createScriptProcessor(bufferSize, 1, 1)
ScriptProcessorNew(bufferSize) == [bufferSize |-> bufferSize, pending |-> <<>>]

NoDeliveries(format) == [format |-> format, worklet |-> <<>>, script |-> <<>>]

NoDsp ==
  /\ pcm = PCMProcessorNew(1) /\ fed = <<>> /\ posted = <<>>
  /\ scriptNode = ScriptProcessorNew(1) /\ delivered = NoDeliveries(DEFAULT_AUDIO_FORMAT)

Init == InitManager /\ convIn = <<>> /\ convOut = <<>> /\ NoDsp

(***************************************************************************)
(* Actions                                                                 *)
(***************************************************************************)
Do(s, op) == ~s.overflow /\ Commit(s, op)

\* history of what the room's publications could resolve during the call,
\* among ids; a call that finds capture disarmed looks nothing up
NoteResolvable(s, ids, env) ==
  IF ~(s.audioCaptureEnabled /\ s.audioCaptureOptions.set) THEN s
  ELSE [s EXCEPT !.resolvable = {k \in ids :
                                   LET t == GetTrackById(s, k, env)
                                   IN t # "" /\ TrackHasMedia(t)}]

\* history of the audio subscriptions made and not undone
NoteSubscribed(s, t) ==
  IF TrackKind(t) = "audio"
    THEN [s EXCEPT !.subscribed = Put(@, [key |-> TrackKey(t), track |-> t])]
    ELSE s

NoteUnsubscribed(s, t) ==
  IF TrackKind(t) = "audio"
    THEN [s EXCEPT !.subscribed = {g \in @ : g.key # TrackKey(t)}]
    ELSE s

SetRoom(r) ==
  /\ room # r
  /\ Do([Cur EXCEPT !.room = r], Op("setRoom", "", 0))

\* n: the elements track.attach() yielded
HandleTrackSubscribed(t, env) ==
  /\ TrackIsRemote(t)
  /\ Do(NoteResolvable(NoteSubscribed(HandleTrackSubscribedH(Cur, t, env), t), {TrackKey(t)}, env),
        Op("handleTrackSubscribed", t, IF env.attachOk THEN 1 ELSE 0))

HandleLocalTrackPublished(t, env) ==
  /\ ~TrackIsRemote(t)
  /\ Do(NoteResolvable(NoteSubscribed(HandleLocalTrackPublishedH(Cur, t, env), t), {TrackKey(t)}, env),
        Op("handleLocalTrackPublished", t, 0))

HandleTrackUnsubscribed(t, env) ==
  /\ TrackIsRemote(t)
  /\ Do(NoteUnsubscribed(HandleTrackUnsubscribedH(Cur, t, env), t),
        Op("handleTrackUnsubscribed", t, 0))

HandleLocalTrackUnsubscribed(t, env) ==
  /\ ~TrackIsRemote(t)
  /\ Do(NoteUnsubscribed(HandleTrackUnsubscribedH(Cur, t, env), t),
        Op("handleLocalTrackUnsubscribed", t, 0))

SetVolume(v, env) ==
  Do(SetVolumeH(Cur, v, env), Op("setVolume", v.kind, v.num))

\* pause() / play() on every live sink; a rejected play() is ignored
PauseAllAudio == Do(Cur, Op("pauseAllAudio", "", 0))

ResumeAllAudio == Do(Cur, Op("resumeAllAudio", "", 0))

\* DOM events of an element that still exists
ElementPlay(e) ==
  /\ e \in DOMAIN elems
  /\ Do(OnPlay(Cur, e), Op("play", "", e))

\* arg of a pause or an ended: the element's speaking flag when it fired
SpeakingNote(e) == IF elems[e].speaking THEN "speaking" ELSE "notSpeaking"

ElementPause(e) ==
  /\ e \in DOMAIN elems
  /\ Do(OnPause(Cur, e), Op("pause", SpeakingNote(e), e))

ElementEnded(e) ==
  /\ e \in DOMAIN elems
  /\ Do(OnEnded(Cur, e), Op("ended", SpeakingNote(e), e))

\* the page empties the render surface on its own
ExternalDomClear ==
  /\ \E e \in DOMAIN elems : elems[e].inDOM
  /\ Do([Cur EXCEPT !.elems = [e \in DOMAIN @ |-> [@[e] EXCEPT !.inDOM = FALSE]]],
        Op("domClear", "", 0))

EnableAudioCapture(options, env) ==
  Do(NoteResolvable(EnableAudioCaptureH(Cur, options, env),
                    {trackStats[i].trackId : i \in DOMAIN trackStats}, env),
     Op("enableAudioCapture", IF options.callback THEN "callback" ELSE "", 0))

\* n: the sessions the call found
\* arg: whether a stop() or disconnect() threw during the call
StopNote(env) == IF \E r \in Held(Cur) : r.kind \in env.stopFail THEN "stopFailed" ELSE ""

DisableAudioCapture(env) ==
  Do(DisableAudioCaptureH(Cur, env),
     Op("disableAudioCapture", StopNote(env), Cardinality(trackCaptureMap)))

\* n: how many of the manager's collections held something when called
CollectionsHeld ==
  Cardinality({i \in 1..7 :
     CASE i = 1 -> trackStats # <<>>
       [] i = 2 -> AudioElements(Cur) # {}
       [] i = 3 -> trackCaptureMap # {}
       [] i = 4 -> clonedTracks # {}
       [] i = 5 -> recorders # {}
       [] i = 6 -> processors # {}
       [] OTHER -> sourceNodes # {}})

Cleanup(env) ==
  Do([CleanupH(Cur, env) EXCEPT !.subscribed = {}],
     Op("cleanup", StopNote(env), CollectionsHeld))

BoolNum(b) == IF b THEN 1 ELSE 0

\* arg: what the call had to work with
InputNote(env) ==
  IF audioContext = "none" /\ env.ctx = "none" THEN "noContext"
  ELSE IF ~HasMicrophone(Cur, env) THEN "noSource" ELSE "source"

OutputNote(env) ==
  IF audioContext = "none" /\ env.ctx = "none" THEN "noContext"
  ELSE IF AudioElements(Cur) = {} THEN "noSource" ELSE "source"

GetInputVolume(env) == Do(GetInputVolumeH(Cur, env), Op("getInputVolume", InputNote(env), 0))

GetOutputVolume == Do(GetOutputVolumeH(Cur), Op("getOutputVolume", OutputNote(NoFault), 0))

GetInputByteFrequencyData(env) ==
  Do(GetInputByteFrequencyDataH(Cur, env),
     Op("getInputByteFrequencyData", InputNote(env), 0))

GetOutputByteFrequencyData(env) ==
  Do(GetOutputByteFrequencyDataH(Cur, env),
     Op("getOutputByteFrequencyData", OutputNote(env), 0))

SetMicMuted(muted, mic, env) ==
  Do(SetMicMutedH(Cur, muted, mic, env),
     Op("setMicMuted", IF room THEN mic ELSE "noRoom", BoolNum(muted)))

\* a setMicrophoneEnabled promise resolves or rejects
MicSettles(i, ok, env) ==
  /\ i \in DOMAIN micCalls
  /\ Do(MicSettlesH(Cur, i, ok, env),
        Op("micSettles", IF ok THEN "resolved" ELSE "rejected", BoolNum(micCalls[i])))

\* on('error', ...) / removeAllListeners('error')
SetErrorListener(b) ==
  /\ errorListener # b
  /\ Do([Cur EXCEPT !.errorListener = b], Op("errorListener", "", BoolNum(b)))

\* audioWorklet.addModule completes
RegistrationSettles(p, ok) ==
  /\ promises[p] = "pending"
  /\ Do([Cur EXCEPT !.promises[p] = IF ok THEN "resolved" ELSE "rejected"],
        Op("addModule", IF ok THEN "resolved" ELSE "rejected", p))

\* a suspended setup resumes, in await order among those on the same promise
ContinueWorklet(i, env) ==
  /\ i \in DOMAIN tasks
  /\ promises[tasks[i].promise] # "pending"
  /\ \A j \in 1..(i - 1) : tasks[j].promise # tasks[i].promise
  /\ Do(ContinueWorkletH(Cur, i, env), Op("continueWorklet", tasks[i].trackId, 0))

(***************************************************************************)
(* Registry and sinks: subscriptions, unsubscriptions and cleanup, with    *)
(* sink creation that can be denied and render-surface calls that can fail *)
(***************************************************************************)
SubscribeEnvs ==
  Envs({FALSE}, {FALSE}, {{}}, {{}}, {FALSE}, {"worklet"}, {Tracks})
    \cup Envs({TRUE}, BOOLEAN, {{}, Slots}, {{}}, {FALSE}, {"worklet"}, {Tracks})

ListenerEnvs == Envs({TRUE}, BOOLEAN, {{}}, {{}}, {FALSE}, {"worklet"}, {Tracks})

DomEnvs == Envs({TRUE}, {FALSE}, {{}, Slots}, {{}}, {FALSE}, {"worklet"}, {Tracks})

UnsubscribeEnvs == Envs({TRUE}, BOOLEAN, {{}, Slots}, {{}}, {FALSE}, {"worklet"}, {Tracks})

NextRegistry ==
  \/ \E t \in Tracks, env \in SubscribeEnvs : HandleTrackSubscribed(t, env)
  \/ \E t \in Tracks : HandleLocalTrackPublished(t, NoFault)
  \/ \E t \in Tracks, env \in UnsubscribeEnvs : HandleTrackUnsubscribed(t, env)
  \/ \E t \in Tracks, env \in ListenerEnvs : HandleLocalTrackUnsubscribed(t, env)
  \/ ExternalDomClear
  \/ \E env \in DomEnvs : Cleanup(env)

InitRegistry == Init /\ errorListener

SpecRegistry == InitRegistry /\ [][NextRegistry]_vars


(***************************************************************************)
(* C1, C7: the registry and the live-sink set after unsubscriptions        *)
(***************************************************************************)
DistinctStreamIds == \A t1, t2 \in AudioTracks : t1 # t2 => TrackKey(t1) # TrackKey(t2)

IsUnsubscribeOf(t) ==
  /\ lastOp.op \in {"handleTrackUnsubscribed", "handleLocalTrackUnsubscribed"}
  /\ lastOp.arg = t

\* C1: with distinct stream ids, right after the unsubscription of an audio
\* stream the registry has no entry for its id and no sink created for it is
\* in the live-sink set.
C1_UnsubscribeClearsStream ==
  DistinctStreamIds =>
    \A t \in AudioTracks :
      IsUnsubscribeOf(t) =>
        /\ ~HasKey(trackStats, TrackKey(t))
        /\ \A e \in AudioElements(Cur) : TrackKey(elems[e].track) # TrackKey(t)

\* the agent stream, which had a sink, has just been unsubscribed (its sink is
\* still on the render surface because the removal failed) while the user
\* stream keeps its record and its live sink
C1_Witness ==
  /\ IsUnsubscribeOf("tA")
  /\ \E e \in DOMAIN elems : elems[e].track = "tA" /\ ~elems[e].attached /\ elems[e].inDOM
  /\ \E e \in AudioElements(Cur) : elems[e].track = "tU"
  /\ HasKey(trackStats, TrackKey("tU"))

\* C7: getTrackStats() reports as totalTracks and as activeTracks the number
\* of audio stream ids subscribed and not unsubscribed since, as audioElements
\* the size of the live-sink set, and as trackDetails exactly the
\* (id, record) pairs of those streams.
C7_TrackStatsMatchSubscriptions ==
  LET stats == GetTrackStats IN
  /\ stats.totalTracks = Cardinality(subscribed)
  /\ stats.activeTracks = Cardinality(subscribed)
  /\ stats.audioElements = Cardinality({e \in DOMAIN elems : elems[e].live})
  /\ Len(stats.trackDetails) = Cardinality(Range(stats.trackDetails))
  /\ Range(stats.trackDetails) = {<<g.key, TrackRecord(g.track)>> : g \in subscribed}

\* S1 (agent) and S2 (user) were subscribed and S1 has just been unsubscribed:
\* one track is reported, the user's
C7_Witness ==
  /\ IsUnsubscribeOf("tA")
  /\ GetTrackStats.activeTracks = 1
  /\ GetTrackStats.totalTracks = 1
  /\ GetTrackStats.trackDetails = <<<<TrackKey("tU"), TrackRecord("tU")>>>>
  /\ GetTrackStats.audioElements = 1


(***************************************************************************)
(* Volume: subscriptions, unsubscriptions, cleanup and setVolume with      *)
(* every kind of argument, with listeners that may throw                   *)
(***************************************************************************)
VolumeSubscribeEnvs ==
  Envs({FALSE}, {FALSE}, {{}}, {{}}, {FALSE}, {"worklet"}, {Tracks})
    \cup Envs({TRUE}, {FALSE}, {{}}, {{}}, {FALSE}, {"worklet"}, {Tracks})

NextVolume ==
  \/ \E env \in VolumeSubscribeEnvs : HandleTrackSubscribed("tA", env)
  \/ HandleTrackUnsubscribed("tA", NoFault)
  \/ \E v \in VolumeInputs, env \in ListenerEnvs : SetVolume(v, env)
  \/ Cleanup(NoFault)

SpecVolume == Init /\ [][NextVolume]_vars

Clamp01(n) == IF n < 0 THEN 0 ELSE IF n > VolUnit THEN VolUnit ELSE n

VolumeChangedEvents == {i \in DOMAIN emitted : emitted[i].type = "volumeChanged"}

SinksFollowAndOneEvent ==
  /\ \A e \in AudioElements(Cur) : elems[e].volume = volume
  /\ Cardinality(VolumeChangedEvents) = 1
  /\ \A i \in VolumeChangedEvents : emitted[i].val = volume

\* C2 as stated: a number that is finite is clamped to [0,1]; every other
\* argument (NaN, +/-Infinity, anything that is not a number) stores 0; the
\* live sinks have the stored volume and one VolumeChanged carries it.
C2_AsStated ==
  lastOp.op = "setVolume" =>
    /\ volume = IF lastOp.arg = "number" THEN Clamp01(lastOp.n) ELSE 0
    /\ SinksFollowAndOneEvent

\* C2 (amended): the argument is first coerced with Number(); a finite result
\* (numbers, numeric strings, true = 1, false = 0, null = 0) is clamped to
\* [0,1], a result that is not finite (NaN, +/-Infinity, undefined, text that
\* is not a number) stores 0; the live sinks have the stored volume and one
\* VolumeChanged carries it.
C2_SetVolumeCoercesThenClamps ==
  lastOp.op = "setVolume" =>
    /\ volume = CASE lastOp.arg \in {"number", "numericString"} -> Clamp01(lastOp.n)
                  [] lastOp.arg = "true" -> VolUnit
                  [] lastOp.arg \in {"false", "null"} -> 0
                  [] OTHER -> 0
    /\ SinksFollowAndOneEvent

\* setVolume("0.5") with two live sinks
C2_Witness ==
  /\ lastOp = Op("setVolume", "numericString", 1)
  /\ volume = 1
  /\ Cardinality(AudioElements(Cur)) = 2
  /\ emitted[1] = Ev("volumeChanged", "", 1)


(***************************************************************************)
(* Activity detection: sinks come and go and fire play / pause / ended     *)
(***************************************************************************)
NextActivity ==
  \/ \E t \in RemoteAudioTracks, env \in VolumeSubscribeEnvs : HandleTrackSubscribed(t, env)
  \/ \E t \in RemoteAudioTracks : HandleTrackUnsubscribed(t, NoFault)
  \/ PauseAllAudio
  \/ ResumeAllAudio
  \/ \E e \in Slots : ElementPlay(e)
  \/ \E e \in Slots : ElementPause(e)
  \/ \E e \in Slots : ElementEnded(e)
  \/ Cleanup(NoFault)

SpecActivity == InitRegistry /\ [][NextActivity]_vars

\* C8: per sink, a play while not speaking emits one Speaking and a play
\* while speaking emits nothing; a pause or an ended emits one Listening and
\* leaves the sink not speaking (so that its next play emits Speaking again).
C8_ActivityPerSink ==
  [][\A e \in DOMAIN elems :
       /\ lastOp' = Op("play", "", e) =>
            /\ elems'[e].speaking
            /\ emitted' = IF elems[e].speaking THEN <<>> ELSE <<Ev("speaking", "", e)>>
       /\ (lastOp'.op \in {"pause", "ended"} /\ lastOp'.n = e) =>
            /\ ~elems'[e].speaking
            /\ emitted' = <<Ev("listening", "", e)>>]_vars

\* the second sink has just started to play and emitted Speaking while the
\* first sink is speaking too
C8_Witness ==
  /\ lastOp = Op("play", "", 2)
  /\ emitted = <<Ev("speaking", "", 2)>>
  /\ Len(elems) = 2
  /\ elems[1].speaking /\ elems[2].speaking


(***************************************************************************)
(* #float32ToInt16.  A sample is NaN or the number num / SampleDenom; the  *)
(* products below are exact in double precision, as they are for the       *)
(* Float32 values of the source.                                           *)
(***************************************************************************)
Sample(n) == [nan |-> FALSE, num |-> n]

NaNSample == [nan |-> TRUE, num |-> 0]

\* Math.max(-1, Math.min(1, x)), as a numerator over SampleDenom
ClampSample(n) == Max2(0 - SampleDenom, Min2(SampleDenom, n))

\* the conversion an Int16Array store applies to the number n / d:
\* truncate towards zero, then wrap modulo 2^16 into [-32768, 32767]
ToInt16(n, d) ==
  LET t == IF n >= 0 THEN n \div d ELSE 0 - ((0 - n) \div d)
      m == t % 65536
  IN IF m >= 32768 THEN m - 65536 ELSE m

\* a variant that scales without clamping first
ConvertSample_NoClamp(x) ==
  IF x.nan THEN 0 ELSE ToInt16(x.num * INT16_SCALE, SampleDenom)

\* buf[i] = Math.max(-1, Math.min(1, buffer[i])) * INT16_SCALE
ConvertSample(x) ==
  IF x.nan THEN 0   \* NaN stays NaN through min, max and *, and is stored as 0
  ELSE ToInt16(ClampSample(x.num) * INT16_SCALE, SampleDenom)

Float32ToInt16(buffer) == [i \in DOMAIN buffer |-> ConvertSample(buffer[i])]

SampleValues ==
  {NaNSample} \cup
  {Sample(n) : n \in {0 - 2 * SampleDenom, 0 - SampleDenom, 0 - (SampleDenom \div 2), -1, 0,
                      1, SampleDenom \div 2, SampleDenom, 2 * SampleDenom}}

Buffers == UNION {[1..n -> SampleValues] : n \in 0..MaxBuffer}

InitConvert ==
  InitManager /\ errorListener /\ convIn \in Buffers /\ convOut = <<>> /\ NoDsp

Float32ToInt16Call ==
  /\ lastOp.op = "new"
  /\ convOut' = Float32ToInt16(convIn)
  /\ lastOp' = Op("float32ToInt16", "", Len(convIn))
  /\ UNCHANGED <<agentVars, trackStats, elems, volume, room, audioCaptureEnabled,
                 audioCaptureOptions, recorders, processors, sourceNodes, clonedTracks,
                 trackCaptureMap, liveClones, audioContext, workletReady, promises,
                 tasks, registrations, orphans, inputAnalyser, outputAnalyser, returned, micCalls,
                 errorListener, emitted, threw, released, resolvable, subscribed, convIn,
                 dspVars, chunks, late>>

NextConvert == Float32ToInt16Call

SpecConvert == InitConvert /\ [][NextConvert]_vars

\* Math.round of the number n / d (halves go up)
RoundDiv(n, d) == (2 * n + d) \div (2 * d)

\* truncation towards zero of the number n / d
TruncDiv(n, d) == IF n >= 0 THEN n \div d ELSE 0 - ((0 - n) \div d)

Converted == lastOp.op = "float32ToInt16"

\* C9 as stated: every output sample is round(clamp(s,-1,1) x 32767), in the
\* order and number of the input.
C9_AsStated ==
  Converted =>
    /\ Len(convOut) = Len(convIn)
    /\ \A i \in DOMAIN convIn :
         ~convIn[i].nan =>
           convOut[i] = RoundDiv(ClampSample(convIn[i].num) * INT16_SCALE, SampleDenom)

\* C9 (amended): every output sample is clamp(s,-1,1) x 32767 truncated
\* towards zero (0 for NaN), in the order and number of the input; 1.0 gives
\* 32767, -1.0 gives -32767 and any s > 1 gives 32767.
C9_ConversionTruncates ==
  Converted =>
    /\ Len(convOut) = Len(convIn)
    /\ \A i \in DOMAIN convIn :
         /\ convIn[i].nan => convOut[i] = 0
         /\ ~convIn[i].nan =>
              convOut[i] = TruncDiv(ClampSample(convIn[i].num) * INT16_SCALE, SampleDenom)
         /\ ~convIn[i].nan /\ convIn[i].num >= SampleDenom => convOut[i] = 32767
         /\ ~convIn[i].nan /\ convIn[i].num = 0 - SampleDenom => convOut[i] = -32767

\* a half-scale sample followed by an over-range one
C9_Witness ==
  /\ Converted
  /\ convIn = <<Sample(SampleDenom \div 2), Sample(2 * SampleDenom)>>
  /\ convOut = <<INT16_SCALE \div 2, INT16_SCALE>>


(***************************************************************************)
(* Capture: the room being set, subscriptions, unsubscriptions, arming and  *)
(* disarming.  The publications the room holds are the platform's choice   *)
(* at every call.                                                          *)
(***************************************************************************)
Publications == {{}, {"tU", "tL"}, AudioTracks}

CaptureEnvs(attach) ==
  Envs(attach, {FALSE}, {{}}, {{}}, {FALSE}, {"legacy"}, Publications)

ContinueEnvs == Envs({TRUE}, {FALSE}, {{}}, {{}}, BOOLEAN, {"worklet"}, {Tracks})

ArmInputs ==
  {[callback |-> TRUE, source |-> "", trackSourceFilter |-> "", format |-> ""],
   [callback |-> TRUE, source |-> "agent", trackSourceFilter |-> "all", format |-> "pcm-f32"],
   [callback |-> TRUE, source |-> "both", trackSourceFilter |-> "all", format |-> ""],
   [callback |-> FALSE, source |-> "both", trackSourceFilter |-> "all", format |-> ""]}

NextCapture ==
  \/ SetRoom(TRUE)
  \/ \E t \in RemoteAudioTracks, env \in CaptureEnvs(BOOLEAN) : HandleTrackSubscribed(t, env)
  \/ \E env \in CaptureEnvs({TRUE}) : HandleLocalTrackPublished("tL", env)
  \/ \E t \in RemoteAudioTracks : HandleTrackUnsubscribed(t, NoFault)
  \/ HandleLocalTrackUnsubscribed("tL", NoFault)
  \/ \E o \in ArmInputs, env \in CaptureEnvs({TRUE}) : EnableAudioCapture(o, env)
  \/ DisableAudioCapture(NoFault)

SpecCapture == InitRegistry /\ [][NextCapture]_vars

(***************************************************************************)
(* Teardown: cleanup() and disableAudioCapture() on a manager that holds   *)
(* sinks and sessions of both formats, with a render surface that can      *)
(* refuse a removal or be emptied by the page, and resources whose stop()  *)
(* or disconnect() can throw.                                              *)
(***************************************************************************)
TeardownEnvs(attach, dom) ==
  Envs(attach, {FALSE}, dom, {{}}, {FALSE}, {"legacy", "none"}, {Tracks})

TeardownInputs ==
  {[callback |-> TRUE, source |-> "both", trackSourceFilter |-> "", format |-> ""],
   [callback |-> TRUE, source |-> "both", trackSourceFilter |-> "", format |-> "pcm-f32"]}

StopFailures ==
  {{}, {"recorder"}, {"processor", "source"}, {"clone"},
   {"recorder", "processor", "source", "clone"}}

NextTeardown ==
  \/ SetRoom(TRUE)
  \/ \E env \in TeardownEnvs(BOOLEAN, {{}}) : HandleTrackSubscribed("tA", env)
  \/ \E env \in TeardownEnvs({TRUE}, {{}}) : HandleLocalTrackPublished("tL", env)
  \/ \E o \in TeardownInputs, env \in TeardownEnvs({TRUE}, {{}}) : EnableAudioCapture(o, env)
  \/ \E env \in WithStopFail(TeardownEnvs({TRUE}, {{}, Slots}), StopFailures) : Cleanup(env)
  \/ \E env \in WithStopFail({NoFault}, StopFailures) : DisableAudioCapture(env)
  \/ ExternalDomClear

SpecTeardown == InitRegistry /\ [][NextTeardown]_vars

Armed == audioCaptureEnabled /\ audioCaptureOptions.set

SessionsOf(k) == {r \in trackCaptureMap : r.key = k}

IsSubscription(op) == op.op \in {"handleTrackSubscribed", "handleLocalTrackPublished"}

\* C3: however often per-stream capture setup is triggered for a stream id
\* (the two triggers of one inbound subscription included), the id has at
\* most one CaptureSession, and exactly one live cloned stream when it has a
\* session and none when it has not.
C3_OneSessionOneClone ==
  \A k \in StreamKeys :
    /\ Cardinality(SessionsOf(k)) <= 1
    /\ liveClones[k] = Cardinality(SessionsOf(k))
    /\ k \in clonedTracks <=> SessionsOf(k) # {}

\* an inbound subscription that made a sink, so triggered setup twice, while
\* armed, and the stream has its session and its clone
C3_Witness ==
  /\ lastOp.op = "handleTrackSubscribed" /\ lastOp.arg = "tA"
  /\ Armed
  /\ \E i \in DOMAIN emitted : emitted[i].type = "trackSubscribed"
  /\ Cardinality(SessionsOf("TR_A")) = 1
  /\ liveClones["TR_A"] = 1
  /\ Cardinality({e \in DOMAIN elems : elems[e].track = "tA"}) = 2

\* C4: a step that leaves capture armed with source 'agent' adds no
\* CaptureSession whose participant identity lacks 'agent', whether the step
\* is a subscription (inbound or outbound) or the arming itself.
C4_AgentFilter ==
  [][(audioCaptureEnabled' /\ audioCaptureOptions'.source = "agent")
       => \A r \in trackCaptureMap' \ trackCaptureMap :
            IsAgentName(r.participant) /\ r.source = "agent"]_vars

\* armed with source 'agent' and every track source: the agent's stream has a
\* session, the subscription of bob's stream made none
C4_Witness ==
  /\ lastOp.op = "handleTrackSubscribed" /\ lastOp.arg = "tU"
  /\ Armed
  /\ audioCaptureOptions.source = "agent"
  /\ audioCaptureOptions.trackSourceFilter = "all"
  /\ SessionsOf("TR_A") # {}
  /\ SessionsOf("TR_U") = {}
  /\ SessionsOf("ms_L") = {}
  /\ {g.track : g \in subscribed} = {"tA", "tU", "tL"}

\* C5: enableAudioCapture without a callback throws, emits nothing, and leaves
\* the armed flag, the stored options and the CaptureSession map as they were.
C5_MissingCallbackThrows ==
  [][lastOp' = Op("enableAudioCapture", "", 0)
       => /\ threw'
          /\ emitted' = <<>>
          /\ UNCHANGED <<audioCaptureEnabled, audioCaptureOptions, trackCaptureMap>>]_vars

\* the call was made on an armed manager that holds a session
C5_Witness ==
  /\ lastOp = Op("enableAudioCapture", "", 0)
  /\ threw
  /\ Armed
  /\ trackCaptureMap # {}

\* C10: disableAudioCapture leaves the CaptureSession map empty and capture
\* disarmed; while disarmed, only enableAudioCapture arms again and no
\* subscription adds a CaptureSession or clones a stream.
C10_DisarmedUntilEnabled ==
  [][/\ lastOp'.op = "disableAudioCapture"
          => trackCaptureMap' = {} /\ ~audioCaptureEnabled' /\ ~audioCaptureOptions'.set
     /\ (~audioCaptureEnabled /\ lastOp'.op # "enableAudioCapture")
          => ~audioCaptureEnabled'
     /\ (~audioCaptureEnabled /\ IsSubscription(lastOp'))
          => UNCHANGED <<trackCaptureMap, clonedTracks, liveClones>>]_vars

\* a disable that found sessions, on a manager with subscriptions
C10_Witness ==
  /\ lastOp.op = "disableAudioCapture"
  /\ lastOp.n > 0
  /\ subscribed # {}
  /\ trackCaptureMap = {}
  /\ ~audioCaptureEnabled

ManagerState ==
  <<trackStats, elems, volume, room, audioCaptureEnabled, audioCaptureOptions, recorders,
    processors, sourceNodes, clonedTracks, trackCaptureMap, liveClones, audioContext,
    workletReady, promises, tasks, inputAnalyser, outputAnalyser, micCalls,
    errorListener>>

\* C6: cleanup() throws nothing and emits nothing, and when it returns the
\* registry, the live-sink set, the sessions, the cloned streams, the
\* encoders, the processing nodes and the source nodes are empty; a cleanup
\* that directly follows a cleanup finds nothing and changes nothing.
C6_CleanupIdempotent ==
  [][lastOp'.op = "cleanup"
       => /\ ~threw' /\ emitted' = <<>>
          /\ trackStats' = <<>>
          /\ \A e \in DOMAIN elems' : ~elems'[e].live
          /\ trackCaptureMap' = {} /\ clonedTracks' = {} /\ recorders' = {}
          /\ processors' = {} /\ sourceNodes' = {}
          /\ \A k \in StreamKeys : liveClones'[k] = 0
          /\ lastOp.op = "cleanup" => lastOp'.n = 0 /\ UNCHANGED ManagerState]_vars

\* a cleanup that found all seven collections occupied, on a render surface
\* that refused the removal of a sink
C6_Witness ==
  /\ lastOp = Op("cleanup", "", 7)
  /\ \E e \in DOMAIN elems : elems[e].inDOM

IsUnsubscription(op) == op.op \in {"handleTrackUnsubscribed", "handleLocalTrackUnsubscribed"}

\* C11: the unsubscription of a stream leaves no CaptureSession for its id and
\* no live cloned stream of it.
C11_AsStated ==
  [][IsUnsubscription(lastOp')
       => /\ TrackKey(lastOp'.arg) \notin Keys(trackCaptureMap')
          /\ liveClones'[TrackKey(lastOp'.arg)] = 0]_vars

\* an unsubscription of the agent's stream that left its session, its encoder
\* and its live clone behind, with no record of the stream in the registry
C11_Witness ==
  /\ lastOp = Op("handleTrackUnsubscribed", "tA", 0)
  /\ ~HasKey(trackStats, "TR_A")
  /\ SessionsOf("TR_A") # {}
  /\ "TR_A" \in recorders
  /\ liveClones["TR_A"] = 1

IsTeardown(op) == op.op \in {"cleanup", "disableAudioCapture"}

\* C12: whichever stop() and disconnect() calls throw, cleanup() and
\* disableAudioCapture() call stop or disconnect on every encoder, processing
\* node, source node and cloned stream the manager held, leave all four maps
\* and the session map empty, and throw nothing.
C12_TeardownReleasesAll ==
  [][IsTeardown(lastOp')
       => /\ released' = Held(Cur)
          /\ recorders' = {} /\ processors' = {} /\ sourceNodes' = {}
          /\ clonedTracks' = {} /\ trackCaptureMap' = {}
          /\ ~threw']_vars

\* a disable during which calls threw, on an encoder, a node pair with its
\* source and two clones
C12_Witness ==
  /\ lastOp = Op("disableAudioCapture", "stopFailed", 2)
  /\ {r.kind : r \in released} = {"recorder", "processor", "source", "clone"}
  /\ Cardinality(released) = 6
  /\ trackCaptureMap = {}

(***************************************************************************)
(* Volume under failure: setVolume on a manager with or without an 'error' *)
(* listener, with listeners that can throw and sinks that can reject the   *)
(* assignment.                                                             *)
(***************************************************************************)
VolumeFaultEnvs == WithVolumeFail(ListenerEnvs, {{}, {1}, {2}})

NextVolumeFaults ==
  \/ \E env \in VolumeSubscribeEnvs : HandleTrackSubscribed("tA", env)
  \/ HandleTrackUnsubscribed("tA", NoFault)
  \/ \E v \in [kind : {"number"}, num : {0, 1, VolUnit}], env \in VolumeFaultEnvs :
       SetVolume(v, env)
  \/ Cleanup(NoFault)

SpecVolumeFaults == Init /\ [][NextVolumeFaults]_vars

\* C13: setVolume does not throw to its caller.
C13_AsStated == lastOp.op = "setVolume" => ~threw

\* a setVolume whose volumeChanged listener threw, with no 'error' listener:
\* the error event it emitted in return was thrown to the caller
C13_Witness ==
  /\ lastOp.op = "setVolume"
  /\ ~errorListener
  /\ threw
  /\ [i \in DOMAIN emitted |-> emitted[i].type] = <<"volumeChanged", "error">>

(***************************************************************************)
(* Capture under failure: arming and subscriptions on a manager with or    *)
(* without an 'error' listener, with encoders that can fail to start and a *)
(* platform that may have no audio-processing context.                     *)
(***************************************************************************)
CaptureFaultEnvs(attach) ==
  Envs(attach, {FALSE}, {{}}, {{}, StreamKeys}, {FALSE}, {"legacy", "none"}, {Tracks})

NextCaptureFaults ==
  \/ SetRoom(TRUE)
  \/ \E env \in CaptureFaultEnvs(BOOLEAN) : HandleTrackSubscribed("tA", env)
  \/ \E env \in CaptureFaultEnvs({TRUE}) : HandleLocalTrackPublished("tL", env)
  \/ HandleTrackUnsubscribed("tA", NoFault)
  \/ \E o \in TeardownInputs, env \in CaptureFaultEnvs({TRUE}) : EnableAudioCapture(o, env)
  \/ DisableAudioCapture(NoFault)

SpecCaptureFaults == Init /\ [][NextCaptureFaults]_vars

\* C14: neither a subscription entry point nor enableAudioCapture called with
\* a callback throws to its caller.
C14_AsStated ==
  (IsSubscription(lastOp) \/ lastOp = Op("enableAudioCapture", "callback", 0)) => ~threw

\* a subscription whose encoder failed to start, with no 'error' listener: the
\* error event emitted in return was thrown to the caller
C14_Witness ==
  /\ lastOp.op = "handleTrackSubscribed" /\ lastOp.arg = "tA"
  /\ ~errorListener
  /\ threw
  /\ \E i \in DOMAIN emitted : emitted[i] = Ev("error", "encoded", 0)
  /\ SessionsOf("TR_A") # {}

(***************************************************************************)
(* Microphone control: setMicMuted with and without a room, on a           *)
(* microphone capability that answers at once, throws, or returns a        *)
(* promise that settles later, with listeners that can throw.              *)
(***************************************************************************)
MicKinds == {"async", "sync", "throws"}

NextMic ==
  \/ \E r \in BOOLEAN : SetRoom(r)
  \/ \E b \in BOOLEAN : SetErrorListener(b)
  \/ \E m \in BOOLEAN, mic \in MicKinds, env \in ListenerEnvs : SetMicMuted(m, mic, env)
  \/ \E i \in 1..MaxMicCalls, ok \in BOOLEAN, env \in ListenerEnvs : MicSettles(i, ok, env)

SpecMic == Init /\ [][NextMic]_vars

MicEvents(evs) == {i \in DOMAIN evs : evs[i].type \in {"micMuted", "micUnmuted"}}

ErrorEvents(evs) == {i \in DOMAIN evs : evs[i].type = "error"}

\* C15: setMicMuted never throws; on the promise-returning capability it
\* emits nothing itself, the resolution of the promise emits the one event of
\* the requested state first, and a rejection emits no mic event and emits an
\* error event exactly when an 'error' listener is registered.
C15_MicEventsAfterCompletion ==
  [][/\ lastOp'.op \in {"setMicMuted", "micSettles"} => ~threw'
     /\ (lastOp'.op = "setMicMuted" /\ lastOp'.arg = "async") => emitted' = <<>>
     /\ (lastOp'.op = "micSettles" /\ lastOp'.arg = "resolved")
          => /\ Cardinality(MicEvents(emitted')) = 1
             /\ emitted'[1].type = IF lastOp'.n = 1 THEN "micMuted" ELSE "micUnmuted"
     /\ (lastOp'.op = "micSettles" /\ lastOp'.arg = "rejected")
          => /\ MicEvents(emitted') = {}
             /\ ErrorEvents(emitted') # {} <=> errorListener]_vars

\* a rejection on a manager with an 'error' listener, after another call's
\* promise is still in flight
C15_Witness ==
  /\ lastOp = Op("micSettles", "rejected", 1)
  /\ errorListener
  /\ emitted = <<Ev("error", "mic", 0)>>
  /\ micCalls = <<FALSE>>

(***************************************************************************)
(* Level metering: the level and frequency queries on a manager whose room *)
(* and sinks come and go, on a platform that may have no audio-processing  *)
(* context, whose analysers hand out any bytes and can fail.               *)
(***************************************************************************)
Silence == [i \in 1..NBins |-> 0]

Loudest == [i \in 1..NBins |-> BYTE_MAX]

ByteArrays == {<<>>, Silence, Loudest, [i \in 1..NBins |-> IF i = 1 THEN BYTE_MAX ELSE 0]}

LevelPlatforms ==
  Envs({TRUE}, {FALSE}, {{}}, {{}}, {FALSE}, {"legacy", "none"}, {{}, Tracks})

LevelEnvs ==
  WithAnalysis(LevelPlatforms, ByteArrays, {FALSE}, {FALSE})
    \cup WithAnalysis(LevelPlatforms, {Silence}, {TRUE}, {FALSE})
    \cup WithAnalysis(LevelPlatforms, {Loudest}, {FALSE}, {TRUE})

NextLevels ==
  \/ \E r \in BOOLEAN : SetRoom(r)
  \/ \E env \in VolumeSubscribeEnvs : HandleTrackSubscribed("tA", env)
  \/ HandleTrackUnsubscribed("tA", NoFault)
  \/ SetVolume([kind |-> "number", num |-> 1], NoFault)
  \/ Cleanup(NoFault)
  \/ \E env \in LevelEnvs : GetInputVolume(env)
  \/ GetOutputVolume
  \/ \E env \in LevelEnvs : GetInputByteFrequencyData(env)
  \/ \E env \in LevelEnvs : GetOutputByteFrequencyData(env)

SpecLevels == InitRegistry /\ [][NextLevels]_vars

LevelQueries == {"getInputVolume", "getOutputVolume"}

FrequencyQueries == {"getInputByteFrequencyData", "getOutputByteFrequencyData"}

InUnitInterval(r) == 0 <= r.num /\ r.num <= r.unit

RecordedIds(stats) == {stats[i].trackId : i \in DOMAIN stats}

SinkIds(es) == {TrackKey(es[e].track) : e \in {x \in DOMAIN es : es[x].live}}

SessionIds(m) == Keys(m)

\* C17: a PlaybackSink or a CaptureSession for a stream id comes into being
\* only in a call that finds or leaves a TrackRecord for that id, so in every
\* reachable state an id with a sink or a session has a record now or had
\* one earlier; sinks and sessions exist independently of each other.
C17_SinkOrSessionHadRecord ==
  [][\A k \in (SinkIds(elems') \ SinkIds(elems))
                 \cup (SessionIds(trackCaptureMap') \ SessionIds(trackCaptureMap)) :
       k \in RecordedIds(trackStats) \cup RecordedIds(trackStats')]_vars

\* the local stream has a session and no sink while the agent's stream has a
\* sink and no session, each with its record
C17_Witness ==
  /\ {"ms_L", "TR_A"} \subseteq RecordedIds(trackStats)
  /\ "ms_L" \in SessionIds(trackCaptureMap) \ SinkIds(elems)
  /\ "TR_A" \in SinkIds(elems) \ SessionIds(trackCaptureMap)

(***************************************************************************)
(* Arming against the filters                                              *)
(***************************************************************************)
\* whether a stream of this participant and track source passes the filters
MatchesFilters(participant, source, o) ==
  /\ o.source = "both" \/ o.source = (IF IsAgentName(participant) THEN "agent" ELSE "user")
  /\ o.trackSourceFilter = "all" \/ o.trackSourceFilter = source

\* C18: when enableAudioCapture returns, every stream of the Track Registry
\* that passes the active filters and whose handle the room could resolve
\* during the call has a CaptureSession; and when a subscription made while
\* capture is armed returns, the stream subscribed has one if it passes the
\* filters and its handle could be resolved.
C18_ArmedStreamsHaveSessions ==
  [][/\ (lastOp'.op = "enableAudioCapture" /\ ~threw')
          => \A i \in DOMAIN trackStats' :
               (/\ MatchesFilters(trackStats'[i].participant, trackStats'[i].source,
                                  audioCaptureOptions')
                /\ trackStats'[i].trackId \in resolvable')
                 => trackStats'[i].trackId \in Keys(trackCaptureMap')
     /\ (/\ IsSubscription(lastOp') /\ Armed /\ ~threw'
         /\ MatchesFilters(ParticipantName(lastOp'.arg),
                           GetTrackSourceString(TrackSourceEnum(lastOp'.arg)),
                           audioCaptureOptions)
         /\ TrackKey(lastOp'.arg) \in resolvable')
          => TrackKey(lastOp'.arg) \in Keys(trackCaptureMap')]_vars

\* arming with both sources and every track source found the agent's and
\* bob's streams recorded and resolvable, and both have their session, made
\* by this call
C18_Witness ==
  /\ lastOp = Op("enableAudioCapture", "callback", 0)
  /\ Armed
  /\ audioCaptureOptions.source = "both"
  /\ resolvable = {"TR_A", "TR_U"}
  /\ Keys(trackCaptureMap) = {"TR_A", "TR_U"}
  /\ Len(trackStats) = 2
  /\ liveClones["TR_A"] = 1 /\ liveClones["TR_U"] = 1

(***************************************************************************)
(* Sink volume: subscriptions, unsubscriptions, setVolume, pause / resume  *)
(* of all sinks and cleanup                                                *)
(***************************************************************************)
SinkVolumeInputs == {v \in VolumeInputs : v.kind \in {"number", "numericString", "NaN"}}

NextSinkVolume ==
  \/ \E t \in RemoteAudioTracks, env \in VolumeSubscribeEnvs : HandleTrackSubscribed(t, env)
  \/ \E t \in RemoteAudioTracks : HandleTrackUnsubscribed(t, NoFault)
  \/ \E v \in SinkVolumeInputs, env \in ListenerEnvs : SetVolume(v, env)
  \/ PauseAllAudio
  \/ ResumeAllAudio
  \/ Cleanup(NoFault)

SpecSinkVolume == Init /\ [][NextSinkVolume]_vars

\* C19: every sink of the live-sink set has the manager's stored volume
C19_LiveSinksAtStoredVolume ==
  \A e \in AudioElements(Cur) : elems[e].volume = volume

\* a subscription made after the volume was lowered: the sink it made and the
\* sink that was there before are both at the stored volume
C19_Witness ==
  /\ lastOp.op = "handleTrackSubscribed"
  /\ volume # MAX_VOLUME
  /\ volume # MIN_VOLUME
  /\ Cardinality(AudioElements(Cur)) = 2
  /\ \A e \in AudioElements(Cur) : elems[e].volume = volume

(***************************************************************************)
(* Pause and ended are unconditional                                       *)
(***************************************************************************)
ListeningEvents(evs) == {i \in DOMAIN evs : evs[i].type = "listening"}

\* C20: a pause or an ended of a sink emits exactly one Listening, and nothing
\* else, and leaves that sink not speaking, whether the sink was speaking or
\* not when the event fired; the other sinks keep their state.
C20_PauseAlwaysEmitsListening ==
  [][lastOp'.op \in {"pause", "ended"}
       => /\ lastOp'.arg = (IF elems[lastOp'.n].speaking THEN "speaking" ELSE "notSpeaking")
          /\ Cardinality(ListeningEvents(emitted')) = 1
          /\ Len(emitted') = 1
          /\ ~threw'
          /\ ~elems'[lastOp'.n].speaking
          /\ \A x \in DOMAIN elems \ {lastOp'.n} : elems'[x].speaking = elems[x].speaking]_vars

\* a pause of a sink that was not speaking when it fired: one Listening
C20_Witness ==
  /\ lastOp = Op("pause", "notSpeaking", 1)
  /\ emitted = <<Ev("listening", "", 1)>>
  /\ ~elems[1].speaking
  /\ elems[1].live

(***************************************************************************)
(* Off-thread capture: PCM sessions on a platform with audioWorklet, whose *)
(* addModule may reject and whose node construction may throw, with the    *)
(* suspended setups resuming in any order allowed by the promises          *)
(***************************************************************************)
WorkletEnvs == Envs({FALSE}, {FALSE}, {{}}, {{}}, {FALSE}, {"worklet"}, {Tracks})

WorkletInputs ==
  {[callback |-> TRUE, source |-> "both", trackSourceFilter |-> "all", format |-> "pcm-f32"]}

NextWorklet ==
  \/ SetRoom(TRUE)
  \/ \E env \in WorkletEnvs : HandleTrackSubscribed("tA", env)
  \/ \E env \in WorkletEnvs : HandleLocalTrackPublished("tL", env)
  \/ \E o \in WorkletInputs, env \in WorkletEnvs : EnableAudioCapture(o, env)
  \/ DisableAudioCapture(NoFault)
  \/ \E p \in 1..MaxPromises, ok \in BOOLEAN : RegistrationSettles(p, ok)
  \/ \E i \in 1..MaxTasks, env \in ContinueEnvs : ContinueWorklet(i, env)

SpecWorklet == InitRegistry /\ [][NextWorklet]_vars

\* C21 as stated: audioWorklet.addModule is called at most once on an
\* AudioContext, whatever the order of the PCM setups that share it.
C21_AsStated == registrations <= 1

\* the registration resolved and the agent's setup, resumed, failed to build
\* its node and fell back; the local stream's setup then registered again on
\* the same context
C21_Witness ==
  /\ lastOp = Op("handleLocalTrackPublished", "tL", 0)
  /\ registrations = 2
  /\ audioContext = "worklet"
  /\ workletReady # 0
  /\ [key |-> <<"TR_A", "">>, kind |-> "script"] \in processors

(***************************************************************************)
(* PCMProcessor, the AudioWorkletProcessor of the off-thread strategy.     *)
(* A sample is a number standing for a Float32 value; the buffer is a      *)
(* Float32Array, so a sample is stored and posted unchanged.               *)
(***************************************************************************)
FrameSamples == {1, 2}

Blocks == UNION {[1..n -> FrameSamples] : n \in 0..MaxBlock}

\* the body of the loop of process(), for one sample, with a buffer that is
\* posted without the index being reset
ProcessSample_KeepsIndex(st, x) ==
  LET p == st.pcm
      b == [p.buffer EXCEPT ![Min2(p.index + 1, p.bufferSize)] = x]
      i == p.index + 1
  IN IF i >= p.bufferSize
       THEN [pcm |-> [p EXCEPT !.buffer = b, !.index = i - 1],
             posted |-> Append(st.posted, SubSeq(b, 1, p.bufferSize))]
       ELSE [pcm |-> [p EXCEPT !.buffer = b, !.index = i], posted |-> st.posted]

\* the body of the loop of process(), for one sample
ProcessSample(st, x) ==
  LET p == st.pcm
      b == [p.buffer EXCEPT ![p.index + 1] = x]
      i == p.index + 1
  IN IF i >= p.bufferSize
       THEN [pcm |-> [p EXCEPT !.buffer = b, !.index = 0],
             posted |-> Append(st.posted, SubSeq(b, 1, p.bufferSize))]
       ELSE [pcm |-> [p EXCEPT !.buffer = b, !.index = i], posted |-> st.posted]

RECURSIVE ProcessFrom(_, _, _)
ProcessFrom(st, channelData, i) ==
  IF i > Len(channelData) THEN st
  ELSE ProcessFrom(ProcessSample(st, channelData[i]), channelData, i + 1)

\* process(inputs): connected = inputs[0] has a channel
Process(connected, channelData) ==
  /\ Len(fed) + Len(channelData) <= MaxFed
  /\ LET st == IF connected
                 THEN ProcessFrom([pcm |-> pcm, posted |-> posted], channelData, 1)
                 ELSE [pcm |-> pcm, posted |-> posted]
     IN /\ pcm' = st.pcm
        /\ posted' = st.posted
        /\ fed' = IF connected THEN fed \o channelData ELSE fed
        /\ lastOp' = Op("process", IF connected THEN "input" ELSE "noInput",
                        Len(channelData))
  /\ UNCHANGED <<agentVars, trackStats, elems, volume, room, audioCaptureEnabled,
                 audioCaptureOptions, recorders, processors, sourceNodes, clonedTracks,
                 trackCaptureMap, liveClones, audioContext, workletReady, promises,
                 tasks, registrations, orphans, inputAnalyser, outputAnalyser, returned, micCalls,
                 errorListener, emitted, threw, released, resolvable, subscribed, convIn,
                 convOut, scriptNode, delivered, chunks, late>>

InitAccumulator ==
  /\ InitManager /\ errorListener /\ convIn = <<>> /\ convOut = <<>>
  /\ \E n \in 1..MaxFrame : pcm = PCMProcessorNew(n)
  /\ fed = <<>>
  /\ posted = <<>>
  /\ scriptNode = ScriptProcessorNew(1)
  /\ delivered = NoDeliveries(DEFAULT_AUDIO_FORMAT)

NextAccumulator == \E connected \in BOOLEAN, channelData \in Blocks : Process(connected, channelData)

SpecAccumulator == InitAccumulator /\ [][NextAccumulator]_vars

RECURSIVE Concat(_)
Concat(buffers) ==
  IF buffers = <<>> THEN <<>> ELSE Head(buffers) \o Concat(Tail(buffers))

\* C22: whatever the lengths of the blocks handed to process(), the processor
\* has posted one buffer per full frame of bufferSize samples received, every
\* posted buffer has bufferSize samples, and the posted buffers, put end to
\* end, are the first floor(total / bufferSize) * bufferSize samples received.
C22_AccumulatorFrames ==
  /\ Len(posted) = Len(fed) \div pcm.bufferSize
  /\ \A i \in DOMAIN posted : Len(posted[i]) = pcm.bufferSize
  /\ Concat(posted) = SubSeq(fed, 1, (Len(fed) \div pcm.bufferSize) * pcm.bufferSize)
  /\ pcm.index = Len(fed) % pcm.bufferSize

\* frames of 2 samples fed 5 samples in blocks of 2, 1 and 2: two buffers
\* posted, the second one filled across two calls, one sample waiting
C22_Witness ==
  /\ pcm.bufferSize = 2
  /\ fed = <<1, 2, 2, 1, 1>>
  /\ posted = <<<<1, 2>>, <<2, 1>>>>
  /\ pcm.index = 1
  /\ lastOp = Op("process", "input", 2)

(***************************************************************************)
(* Strategy selection: one stream captured as PCM on a platform with or    *)
(* without audioWorklet, where the off-thread node construction may throw  *)
(* at any step and the in-thread construction may throw too                *)
(***************************************************************************)
StrategyEnvs == Envs({FALSE}, {FALSE}, {{}}, {{}, StreamKeys}, {FALSE}, {"worklet", "legacy"}, {Tracks})

\* what the platform does when a suspended setup resumes
ResumeEnvs ==
  WithFailsAt(Envs({TRUE}, {FALSE}, {{}}, {{}, StreamKeys}, BOOLEAN, {"worklet"}, {Tracks}),
              {"source", "node", "gain"})

NextStrategy ==
  \/ SetRoom(TRUE)
  \/ \E env \in StrategyEnvs : HandleTrackSubscribed("tA", env)
  \/ HandleTrackUnsubscribed("tA", NoFault)
  \/ \E o \in WorkletInputs, env \in StrategyEnvs : EnableAudioCapture(o, env)
  \/ DisableAudioCapture(NoFault)
  \/ \E p \in 1..MaxPromises, ok \in BOOLEAN : RegistrationSettles(p, ok)
  \/ \E i \in 1..MaxTasks, env \in ResumeEnvs : ContinueWorklet(i, env)

SpecStrategy == InitRegistry /\ [][NextStrategy]_vars

\* the setups of the stream key that are suspended at the await
PendingSetups(k) == {i \in DOMAIN tasks : tasks[i].trackId = k}

\* the processors of a strategy the capture maps hold for the stream key
StrategyProcessors(k) ==
  {r \in processors : r.key = <<k, "">> /\ r.kind \in {"worklet", "script"}}

\* C23 as stated: once the setup of a PCM session has finished, the capture
\* maps hold the processor of exactly one strategy for the stream, and no
\* node created for the session is left out of the maps.
C23_AsStated ==
  \A k \in Keys(trackCaptureMap) :
    PendingSetups(k) = {}
      => /\ Cardinality(StrategyProcessors(k)) = 1
         /\ ~\E n \in orphans : n.key = k

\* the off-thread setup of the agent's stream threw after its source and
\* worklet nodes were connected and stored; the fallback replaced both in the
\* maps, and the first pair is left connected and out of teardown's reach
C23_Witness ==
  /\ lastOp = Op("continueWorklet", "TR_A", 0)
  /\ "TR_A" \in Keys(trackCaptureMap)
  /\ PendingSetups("TR_A") = {}
  /\ StrategyProcessors("TR_A") = {[key |-> <<"TR_A", "">>, kind |-> "script"]}
  /\ Node("TR_A", "worklet", TRUE) \in orphans
  /\ Node("TR_A", "source", TRUE) \in orphans

(***************************************************************************)
(* Delivery: the same samples rendered into a PCMProcessor with its        *)
(* port.onmessage handler and into a ScriptProcessorNode with its          *)
(* onaudioprocess handler, both made with the same bufferSize and format.  *)
(* The platform fires audioprocess once per bufferSize samples; a message  *)
(* posted by the processor is handled later, in posting order.  An         *)
(* exception that leaves an event handler is reported by the platform and  *)
(* the handler stays installed.                                            *)
(***************************************************************************)
PcmFormats == {"pcm-f32", "pcm-i16"}

\* the Float32 value a frame sample stands for
AsSamples(audioData) == [i \in DOMAIN audioData |-> Sample(audioData[i])]

Delivery(data, callbackThrew) == [data |-> data, threw |-> callbackThrew]

\* a variant that hands the posted buffer on as it is
OnMessageData_Raw(format, audioData) == audioData

\* outputData of workletNode.port.onmessage
OnMessageData(format, audioData) ==
  IF format = "pcm-i16" THEN Float32ToInt16(AsSamples(audioData)) ELSE audioData

\* outputData of processor.onaudioprocess
OnAudioProcessData(format, audioData) ==
  IF format = "pcm-i16" THEN Float32ToInt16(AsSamples(audioData)) ELSE audioData

\* the audioprocess events the platform fires for the samples it holds
RECURSIVE FireAudioProcess(_, _, _)
FireAudioProcess(node, dl, callbackThrows) ==
  IF Len(node.pending) < node.bufferSize THEN [node |-> node, delivered |-> dl]
  ELSE FireAudioProcess(
         [node EXCEPT !.pending = SubSeq(@, node.bufferSize + 1, Len(@))],
         [dl EXCEPT !.script =
            Append(@, Delivery(OnAudioProcessData(dl.format,
                                                  SubSeq(node.pending, 1, node.bufferSize)),
                               callbackThrows))],
         callbackThrows)

\* one render of channelData into both graphs
Render(channelData, callbackThrows) ==
  /\ Len(fed) + Len(channelData) <= MaxRendered
  /\ LET st == ProcessFrom([pcm |-> pcm, posted |-> posted], channelData, 1)
         fired == FireAudioProcess([scriptNode EXCEPT !.pending = @ \o channelData],
                                   delivered, callbackThrows)
     IN /\ pcm' = st.pcm
        /\ posted' = st.posted
        /\ fed' = fed \o channelData
        /\ scriptNode' = fired.node
        /\ delivered' = fired.delivered
        /\ lastOp' = Op("render", IF callbackThrows THEN "callbackThrows" ELSE "",
                        Len(channelData))
  /\ UNCHANGED <<agentVars, trackStats, elems, volume, room, audioCaptureEnabled,
                 audioCaptureOptions, recorders, processors, sourceNodes, clonedTracks,
                 trackCaptureMap, liveClones, audioContext, workletReady, promises,
                 tasks, registrations, orphans, inputAnalyser, outputAnalyser, returned, micCalls,
                 errorListener, emitted, threw, released, resolvable, subscribed, convIn,
                 convOut, chunks, late>>

\* workletNode.port.onmessage for the oldest message not handled yet
OnMessage(callbackThrows) ==
  /\ Len(delivered.worklet) < Len(posted)
  /\ delivered' =
       [delivered EXCEPT !.worklet =
          Append(@, Delivery(OnMessageData(delivered.format, posted[Len(@) + 1]),
                             callbackThrows))]
  /\ lastOp' = Op("onmessage", IF callbackThrows THEN "callbackThrows" ELSE "",
                  Len(delivered.worklet) + 1)
  /\ UNCHANGED <<agentVars, trackStats, elems, volume, room, audioCaptureEnabled,
                 audioCaptureOptions, recorders, processors, sourceNodes, clonedTracks,
                 trackCaptureMap, liveClones, audioContext, workletReady, promises,
                 tasks, registrations, orphans, inputAnalyser, outputAnalyser, returned, micCalls,
                 errorListener, emitted, threw, released, resolvable, subscribed, convIn,
                 convOut, pcm, fed, posted, scriptNode, chunks, late>>

InitDelivery ==
  /\ InitManager /\ errorListener /\ convIn = <<>> /\ convOut = <<>>
  /\ fed = <<>>
  /\ posted = <<>>
  /\ \E n \in 1..MaxFrame :
       pcm = PCMProcessorNew(n) /\ scriptNode = ScriptProcessorNew(n)
  /\ \E f \in PcmFormats : delivered = NoDeliveries(f)

NextDelivery ==
  \/ \E channelData \in Blocks, callbackThrows \in BOOLEAN : Render(channelData, callbackThrows)
  \/ \E callbackThrows \in BOOLEAN : OnMessage(callbackThrows)

SpecDelivery == InitDelivery /\ [][NextDelivery]_vars

DataOf(deliveries) == [i \in DOMAIN deliveries |-> deliveries[i].data]

TapEnvs ==
  WithAnalysis(Envs({TRUE}, {FALSE}, {{}}, {{}}, {FALSE}, {"legacy"}, {Tracks}),
               {Silence, Loudest}, {FALSE}, {FALSE})

NextTaps ==
  \/ SetRoom(TRUE)
  \/ \E env \in VolumeSubscribeEnvs : HandleTrackSubscribed("tA", env)
  \/ HandleTrackUnsubscribed("tA", NoFault)
  \/ \E env \in TapEnvs : GetInputVolume(env)
  \/ \E env \in TapEnvs : GetInputByteFrequencyData(env)
  \/ \E env \in TapEnvs : GetOutputByteFrequencyData(env)
  \/ DisableAudioCapture(NoFault)
  \/ Cleanup(NoFault)

SpecTaps == InitRegistry /\ [][NextTaps]_vars

\* C25 as stated: disableAudioCapture() leaves the manager holding the
\* context that a query made and an analyser tap uses.
C25_AsStated ==
  (lastOp.op = "disableAudioCapture" /\ (inputAnalyser \/ outputAnalyser))
    => audioContext # "none"

\* disableAudioCapture() on a manager that was never armed and whose input
\* tap a level query had built: the tap is kept, the context is gone
C25_Witness ==
  /\ lastOp.op = "disableAudioCapture"
  /\ ~audioCaptureEnabled
  /\ inputAnalyser
  /\ audioContext = "none"

\* C26 as stated: after cleanup() the manager has no input and no output
\* analyser tap.
C26_AsStated ==
  lastOp.op = "cleanup" => ~inputAnalyser /\ ~outputAnalyser

\* after cleanup() both taps are still there, and the context they were built
\* on is closed and dropped
C26_Witness ==
  /\ lastOp.op = "cleanup"
  /\ inputAnalyser /\ outputAnalyser
  /\ audioContext = "none"
  /\ AudioElements(Cur) = {}

(***************************************************************************)
(* Order of an inbound subscription: one stream subscribed with capture    *)
(* armed or not, a sink creation that can be denied, a TrackSubscribed     *)
(* listener that can throw and a render surface that can refuse the sink   *)
(***************************************************************************)
OrderEnvs == Envs(BOOLEAN, BOOLEAN, {{}, Slots}, {{}}, {FALSE}, {"legacy"}, {{}, Tracks})

OrderInputs ==
  {[callback |-> TRUE, source |-> "both", trackSourceFilter |-> "all", format |-> ""],
   [callback |-> TRUE, source |-> "user", trackSourceFilter |-> "all", format |-> ""]}

NextOrder ==
  \/ SetRoom(TRUE)
  \/ \E env \in OrderEnvs : HandleTrackSubscribed("tA", env)
  \/ HandleTrackUnsubscribed("tA", NoFault)
  \/ \E o \in OrderInputs : EnableAudioCapture(o, NoFault)
  \/ DisableAudioCapture(NoFault)
  \/ SetVolume([kind |-> "number", num |-> 1], NoFault)

SpecOrder == InitRegistry /\ [][NextOrder]_vars

TrackSubscribedEvents(evs) == {i \in DOMAIN evs : evs[i].type = "trackSubscribed"}

\* C27: an inbound subscription that yields a sink emits one TrackSubscribed,
\* with the TrackRecord stored and the sink in the live-sink set at the stored
\* volume; when the listener of that event throws, the call ends there, with
\* the sink not mounted on the render surface and no capture setup done for
\* the stream, so the event comes before both.
C27_AnnouncedBeforeMountAndCapture ==
  [][(lastOp'.op = "handleTrackSubscribed" /\ lastOp'.n = 1)
       => LET e == Len(elems') IN
          /\ Cardinality(TrackSubscribedEvents(emitted')) = 1
          /\ TrackKey(lastOp'.arg) \in RecordedIds(trackStats')
          /\ e > 0
          /\ elems'[e].track = lastOp'.arg
          /\ elems'[e].live
          /\ elems'[e].volume = volume
          /\ threw' => /\ ~elems'[e].inDOM
                       /\ trackCaptureMap' = trackCaptureMap
                       /\ clonedTracks' = clonedTracks
                       /\ recorders' = recorders]_vars

\* armed for both sources, the agent's stream resolvable: the listener of
\* TrackSubscribed threw, the record and the sink at the lowered volume are
\* there, the sink is not mounted and the stream has no session
C27_Witness ==
  /\ lastOp = Op("handleTrackSubscribed", "tA", 1)
  /\ threw
  /\ Armed /\ audioCaptureOptions.source = "both"
  /\ room
  /\ volume = 1
  /\ emitted = <<Ev("trackSubscribed", "TR_A", 0)>>
  /\ Len(trackStats) = 1
  /\ Len(elems) = 1 /\ elems[1].live /\ ~elems[1].inDOM /\ elems[1].volume = 1
  /\ trackCaptureMap = {}

C29_UnresolvedHandleAborts ==
  [][/\ (IsSubscription(lastOp') /\ Armed /\ TrackKey(lastOp'.arg) \notin resolvable')
          => /\ trackCaptureMap' = trackCaptureMap
             /\ clonedTracks' = clonedTracks
             /\ liveClones' = liveClones
             /\ ErrorEvents(emitted') = {}
             /\ ~threw'
     /\ (lastOp' = Op("enableAudioCapture", "callback", 0) /\ Armed')
          => /\ \A k \in RecordedIds(trackStats') \ resolvable' :
                  /\ k \in Keys(trackCaptureMap') => k \in Keys(trackCaptureMap)
                  /\ liveClones'[k] <= liveClones[k]
             /\ (RecordedIds(trackStats') \cap resolvable' = {})
                  => ErrorEvents(emitted') = {} /\ ~threw']_vars

\* bob's stream was subscribed with the room set and capture armed for both
\* sources, at a moment the room's publications did not hold it: the stream
\* has its record and its sink, and no session or clone
C29_Witness ==
  /\ lastOp = Op("handleTrackSubscribed", "tU", 1)
  /\ room /\ Armed
  /\ audioCaptureOptions.source = "both"
  /\ audioCaptureOptions.trackSourceFilter = "all"
  /\ resolvable = {}
  /\ "TR_U" \in RecordedIds(trackStats)
  /\ trackCaptureMap = {}
  /\ clonedTracks = {}
  /\ ErrorEvents(emitted) = {}
  /\ ~threw

(***************************************************************************)
(* Registry upsert: subscriptions and unsubscriptions of streams, one of   *)
(* which comes in twice under the same id with a new publication           *)
(***************************************************************************)
UpsertTracks == {"tA", Republished, "tU"}

UpsertEnvs == Envs(BOOLEAN, {FALSE}, {{}}, {{}}, {FALSE}, {"worklet"}, {Tracks})

NextUpsert ==
  \/ \E t \in UpsertTracks, env \in UpsertEnvs : HandleTrackSubscribed(t, env)
  \/ HandleLocalTrackPublished("tL", NoFault)
  \/ \E t \in UpsertTracks : HandleTrackUnsubscribed(t, NoFault)
  \/ HandleLocalTrackUnsubscribed("tL", NoFault)
  \/ Cleanup(NoFault)

SpecUpsert == InitRegistry /\ [][NextUpsert]_vars

RecordsOf(stats, k) == {i \in DOMAIN stats : stats[i].trackId = k}

\* C30: after the subscription of an audio stream the registry has exactly
\* one record for its id, built from this subscription, and every other
\* record is as it was; and the registry never has more entries than there
\* are distinct ids subscribed and not unsubscribed since.
C30_RegistryUpsert ==
  [][/\ IsSubscription(lastOp')
          => LET k == TrackKey(lastOp'.arg) IN
             /\ Cardinality(RecordsOf(trackStats', k)) = 1
             /\ \A i \in RecordsOf(trackStats', k) :
                  trackStats'[i] = TrackRecord(lastOp'.arg)
             /\ {trackStats'[i] : i \in DOMAIN trackStats' \ RecordsOf(trackStats', k)}
                  = {trackStats[i] : i \in DOMAIN trackStats \ RecordsOf(trackStats, k)}
     /\ Len(trackStats') <= Cardinality({g.key : g \in subscribed'})]_vars

\* the agent's stream was subscribed, then bob's, then the agent's stream
\* again with a new publication: two records, the agent's in its old place
\* with the new publication
C30_Witness ==
  /\ lastOp.op = "handleTrackSubscribed" /\ lastOp.arg = Republished
  /\ trackStats = <<TrackRecord(Republished), TrackRecord("tU")>>
  /\ TrackRecord(Republished) # TrackRecord("tA")
  /\ Cardinality(subscribed) = 2

(***************************************************************************)
(* Encoded capture in flight: a recorder fires dataavailable, the bytes of *)
(* the chunk resolve later, and capture is torn down in between            *)
(***************************************************************************)
\* recorder.ondataavailable of the recorder held for stream key k
OnDataAvailable(k, size) ==
  /\ k \in recorders
  /\ Len(chunks) + Len(late) < MaxChunks
  /\ chunks' = IF size > 0 THEN Append(chunks, [trackId |-> k, droppedBy |-> 0])
                ELSE chunks
  /\ lastOp' = Op("ondataavailable", k, size)
  /\ UNCHANGED <<agentVars, trackStats, elems, volume, room, audioCaptureEnabled,
                 audioCaptureOptions, recorders, processors, sourceNodes, clonedTracks,
                 trackCaptureMap, liveClones, audioContext, workletReady, promises,
                 tasks, registrations, orphans, inputAnalyser, outputAnalyser, returned, micCalls,
                 errorListener, emitted, threw, released, resolvable, subscribed, convIn,
                 convOut, dspVars, late>>

\* event.data.arrayBuffer() of chunk i settles; fulfilled, its then-callback
\* hands the buffer to the callback the session was set up with
ArrayBufferSettles(i, fulfilled) ==
  /\ i \in DOMAIN chunks
  /\ chunks' = SubSeq(chunks, 1, i - 1) \o SubSeq(chunks, i + 1, Len(chunks))
  /\ late' = IF fulfilled /\ chunks[i].droppedBy > 0 THEN Append(late, chunks[i]) ELSE late
  /\ lastOp' = Op("arrayBufferSettled", chunks[i].trackId, IF fulfilled THEN 1 ELSE 0)
  /\ UNCHANGED <<agentVars, trackStats, elems, volume, room, audioCaptureEnabled,
                 audioCaptureOptions, recorders, processors, sourceNodes, clonedTracks,
                 trackCaptureMap, liveClones, audioContext, workletReady, promises,
                 tasks, registrations, orphans, inputAnalyser, outputAnalyser, returned, micCalls,
                 errorListener, emitted, threw, released, resolvable, subscribed, convIn,
                 convOut, dspVars>>

EncodedInputs ==
  {[callback |-> TRUE, source |-> "both", trackSourceFilter |-> "all", format |-> "opus-webm"]}

NextEncoded ==
  \/ SetRoom(TRUE)
  \/ HandleTrackSubscribed("tA", NoFault)
  \/ \E o \in EncodedInputs : EnableAudioCapture(o, NoFault)
  \/ DisableAudioCapture(NoFault)
  \/ \E size \in 0..1 : OnDataAvailable("TR_A", size)
  \/ \E i \in 1..MaxChunks, fulfilled \in BOOLEAN : ArrayBufferSettles(i, fulfilled)

SpecEncoded == InitRegistry /\ [][NextEncoded]_vars

\* C31 as stated: disableAudioCapture returns with the session bookkeeping
\* cleared and without waiting; a chunk whose bytes were resolving at that
\* moment can still reach the callback, and of one cancelled session at
\* most one such chunk does.
C31_AsStated ==
  /\ lastOp.op = "disableAudioCapture" => trackCaptureMap = {} /\ recorders = {}
  /\ \A i, j \in DOMAIN late :
       (late[i].trackId = late[j].trackId /\ late[i].droppedBy = late[j].droppedBy) => i = j

\* two chunks of the agent's stream were resolving when capture was disabled
\* and both were handed to the callback afterwards
C31_Witness ==
  /\ late = <<[trackId |-> "TR_A", droppedBy |-> 1], [trackId |-> "TR_A", droppedBy |-> 1]>>
  /\ trackCaptureMap = {}
  /\ ~audioCaptureEnabled

(***************************************************************************)
(* Unsubscription on a render surface that refuses removals                *)
(***************************************************************************)
TrackUnsubscribedEvents(evs) == {i \in DOMAIN evs : evs[i].type = "trackUnsubscribed"}

\* C32: when the unsubscription of an audio stream returns or throws, no
\* sink of the stream is in the live-sink set, the registry has no record
\* under its id and the call emitted exactly one event, a TrackUnsubscribed,
\* whether or not the render surface let the sinks go.
C32_RemovalFailureBlocksNothing ==
  [][(lastOp'.op = "handleTrackUnsubscribed" /\ TrackKind(lastOp'.arg) = "audio")
       => /\ \A e \in DOMAIN elems' : elems'[e].track = lastOp'.arg => ~elems'[e].live
          /\ ~HasKey(trackStats', TrackKey(lastOp'.arg))
          /\ Len(emitted') = 1
          /\ TrackUnsubscribedEvents(emitted') = {1}
          /\ emitted'[1].id = TrackKey(lastOp'.arg)
          /\ \A i \in DOMAIN trackStats' : \E j \in DOMAIN trackStats :
                trackStats'[i] = trackStats[j]]_vars

\* the agent's stream was unsubscribed while the render surface refused the
\* removal of its sink: the sink is still mounted and no longer live, the
\* record is gone and one TrackUnsubscribed went out
C32_Witness ==
  /\ lastOp.op = "handleTrackUnsubscribed" /\ lastOp.arg = "tA"
  /\ \E e \in DOMAIN elems : elems[e].track = "tA" /\ elems[e].inDOM /\ ~elems[e].live
  /\ ~HasKey(trackStats, "TR_A")
  /\ emitted = <<Ev("trackUnsubscribed", "TR_A", 0)>>
  /\ ~threw

(***************************************************************************)
(* Teardown with a capture setup still awaiting the worklet registration   *)
(***************************************************************************)
\* the stream ids under which the capture maps hold an encoder or a node
NodeIds == recorders \cup sourceNodes \cup {r.key[1] : r \in processors}

\* C33 as stated: every encoder, processing node and source node in the
\* capture maps belongs to a stream id that has a CaptureSession, so a setup
\* that was awaiting the registration when capture was torn down registers
\* no node afterwards.
C33_AsStated == NodeIds \subseteq Keys(trackCaptureMap)

\* capture was disabled while the setup of the agent's stream awaited the
\* registration; the setup resumed afterwards and stored its nodes, on a
\* manager that is disarmed and has no session
C33_Witness ==
  /\ lastOp.op = "continueWorklet"
  /\ ~audioCaptureEnabled
  /\ trackCaptureMap = {}
  /\ "TR_A" \in sourceNodes
  /\ \E r \in processors : r.key[1] = "TR_A"

(***************************************************************************)
(* Arming again under other options                                        *)
(***************************************************************************)
\* whether the session recorded under key k fits the options o: its role
\* passes the source filter, and it runs an encoder only under the encoded
\* format and processing nodes only under a PCM format
ConformsTo(r, o) ==
  /\ o.source = "both" \/ r.source = o.source
  /\ o.format # "opus-webm" => r.key \notin recorders
  /\ o.format = "opus-webm" => r.key \notin sourceNodes

\* C34 as stated: while capture is armed every CaptureSession conforms to
\* the active options, also after enableAudioCapture was called again with
\* another source filter or format.
C34_AsStated ==
  Armed => \A r \in trackCaptureMap : ConformsTo(r, audioCaptureOptions)

\* capture was armed again for the agent only and for PCM while bob's stream
\* had an encoder session: the session and its recorder are still there
C34_Witness ==
  /\ lastOp = Op("enableAudioCapture", "callback", 0)
  /\ audioCaptureOptions.source = "agent"
  /\ audioCaptureOptions.format = "pcm-f32"
  /\ \E r \in trackCaptureMap : r.key = "TR_U" /\ r.source = "user"
  /\ "TR_U" \in recorders

CommuteEnv == [NoFault EXCEPT !.attachOk = FALSE, !.ctx = "legacy"]

CommuteInputs ==
  [callback : {TRUE}, source : {"agent", "user", "both"},
   trackSourceFilter : {"", "all"}, format : {"", "pcm-f32"}]

NextCommute ==
  \/ SetRoom(TRUE)
  \/ \E t \in RemoteAudioTracks : HandleTrackSubscribed(t, CommuteEnv)
  \/ HandleLocalTrackPublished("tL", CommuteEnv)
  \/ \E o \in CommuteInputs : EnableAudioCapture(o, CommuteEnv)
  \/ DisableAudioCapture(NoFault)

SpecCommute == InitRegistry /\ [][NextCommute]_vars

\* the subscriptions of the tracks ts[i], ts[i + 1], ... made on s
RECURSIVE SubscribeFrom(_, _, _)
SubscribeFrom(s, ts, i) ==
  IF i > Len(ts) THEN s
  ELSE SubscribeFrom(IF TrackIsRemote(ts[i])
                       THEN HandleTrackSubscribedH(s, ts[i], CommuteEnv)
                       ELSE HandleLocalTrackPublishedH(s, ts[i], CommuteEnv),
                     ts, i + 1)

\* the sessions of a manager that is armed with the options o before the
\* tracks ts are subscribed in this order
ArmedFirst(o, ts) ==
  LET fresh == [Cur EXCEPT !.trackStats = <<>>, !.elems = <<>>, !.subscribed = {}]
      armed == EnableAudioCaptureH(fresh, [callback |-> TRUE, source |-> o.source,
                                           trackSourceFilter |-> o.trackSourceFilter,
                                           format |-> o.format], CommuteEnv)
  IN SubscribeFrom(armed, ts, 1).trackCaptureMap

\* C36: arming and subscribing commute: a manager without sessions that is
\* armed after its streams were subscribed has the CaptureSessions (ids,
\* participants and roles) that it has when it is armed with the same
\* options first and the streams are subscribed afterwards.
C36_ArmingCommutes ==
  [][(/\ lastOp' = Op("enableAudioCapture", "callback", 0)
      /\ ~Armed /\ trackCaptureMap = {} /\ room)
       => trackCaptureMap' =
            ArmedFirst(audioCaptureOptions',
                       [i \in DOMAIN trackStats |-> trackStats[i].publication])]_vars

\* the manager was armed for both sources and microphones after the agent's,
\* bob's and the local stream had been subscribed: the two microphone streams
\* have their sessions, bob's screen-share audio has none
C36_Witness ==
  /\ lastOp = Op("enableAudioCapture", "callback", 0)
  /\ Len(trackStats) = 3
  /\ audioCaptureOptions.source = "both"
  /\ audioCaptureOptions.trackSourceFilter = "microphone"
  /\ {<<r.key, r.source>> : r \in trackCaptureMap}
       = {<<"TR_A", "agent">>, <<"ms_L", "user">>}
  /\ trackCaptureMap = ArmedFirst(audioCaptureOptions, <<"tL", "tU", "tA">>)

(***************************************************************************)
(* What a failed capture setup leaves behind                               *)
(***************************************************************************)
\* C37 as stated: a per-stream capture setup that failed after the clone was
\* made leaves no CaptureSession and no live clone for the stream id: every
\* id with a session or a live clone has its encoder or its source node.
C37_AsStated ==
  \A k \in StreamKeys :
    (k \in Keys(trackCaptureMap) \/ liveClones[k] > 0) => k \in recorders \cup sourceNodes

\* the encoder of the agent's stream had failed to start; the stream was
\* subscribed again on a platform without faults while capture was armed for
\* the encoded format: no error this time, and the setup was skipped, as the
\* session and the live clone of the failed attempt are still there
C37_Witness ==
  /\ lastOp.op = "handleTrackSubscribed" /\ lastOp.arg = "tA"
  /\ Armed /\ audioCaptureOptions.format = "opus-webm"
  /\ "TR_A" \in resolvable
  /\ ErrorEvents(emitted) = {} /\ ~threw
  /\ SessionsOf("TR_A") # {}
  /\ liveClones["TR_A"] = 1
  /\ "TR_A" \notin recorders

(***************************************************************************)
(* Stream ids: streams with a sid, with a media id only, and with neither  *)
(***************************************************************************)
UnknownTracks == Nameless \cup {"tA"}

UnknownEnvs == Envs(BOOLEAN, {FALSE}, {{}}, {{}}, {FALSE}, {"worklet"}, {Tracks})

NextUnknown ==
  \/ \E t \in UnknownTracks, env \in UnknownEnvs : HandleTrackSubscribed(t, env)
  \/ HandleLocalTrackPublished("tL", NoFault)
  \/ \E t \in UnknownTracks : HandleTrackUnsubscribed(t, NoFault)
  \/ HandleLocalTrackUnsubscribed("tL", NoFault)
  \/ Cleanup(NoFault)

SpecUnknown == InitRegistry /\ [][NextUnknown]_vars

\* the id under which the claim expects the stream: the agent's stream has a
\* sid and a media id, the local stream a media id only
StreamIdOf(t) ==
  CASE t = "tA" -> "TR_A"
    [] t = "tL" -> "ms_L"
    [] t \in Nameless -> "unknown"

\* C38: a subscription stores its record under the sid if the stream has
\* one, else under the id of its media track, else under "unknown"; so the
\* subscription of a stream without ids overwrites the record of another
\* such stream, and the unsubscription of either deletes the one record under
\* "unknown", the other stream being subscribed or not.
C38_UnknownIsShared ==
  [][/\ IsSubscription(lastOp')
          => /\ RecordsOf(trackStats', StreamIdOf(lastOp'.arg)) # {}
             /\ \A i \in DOMAIN trackStats' :
                  /\ trackStats'[i].trackId = StreamIdOf(trackStats'[i].publication)
                  /\ trackStats'[i].trackId = StreamIdOf(lastOp'.arg)
                       => trackStats'[i].publication = lastOp'.arg
             /\ Len(trackStats') = Cardinality(RecordedIds(trackStats'))
     /\ (lastOp'.op = "handleTrackUnsubscribed" /\ lastOp'.arg \in Nameless)
          => RecordsOf(trackStats', "unknown") = {}]_vars

\* both streams without ids were subscribed and each has a live sink; the
\* first was unsubscribed: the record under "unknown", which was the second
\* stream's, is gone while the second stream still plays
C38_Witness ==
  /\ lastOp.op = "handleTrackUnsubscribed" /\ lastOp.arg = "tN1"
  /\ \E e \in DOMAIN elems : elems[e].track = "tN2" /\ elems[e].live
  /\ trackStats = <<>>

(***************************************************************************)
(* HamsaVoiceAgent: the screen wake lock across start, pause, resume, end  *)
(***************************************************************************)
\* wake-lock requests one run has pending at once
MaxAcquires == 2

\* what #init_conversation resolves with; "" stands for a falsy id and for a
\* rejection, which start() treats alike
ConversationIds == {"", "c1"}

\* ScreenWakeLock.isActive(): a sentinel is held and not released
IsActive(w) == w.held

\* ScreenWakeLock.acquire(): asks the platform for a screen lock; the returned
\* promise settles later
Acquire(w) == [w EXCEPT !.acquiring = @ + 1]

\* the platform grants or refuses one pending request
AcquireSettled(w, granted) ==
  [w EXCEPT !.acquiring = @ - 1, !.held = @ \/ granted]

\* ScreenWakeLock.release(): releases the held sentinel; the returned promise
\* settles later
Release(w) == [w EXCEPT !.releasing = TRUE]

\* the platform has released the sentinel
ReleaseSettled(w) == [w EXCEPT !.releasing = FALSE, !.held = FALSE]

\* start(): up to the await of #init_conversation
AgentStart ==
  /\ agent.starting = "idle"
  /\ agent' = [agent EXCEPT !.starting = "init"]
  /\ UNCHANGED <<managerVars, job>>

\* start(): from the conversation id to the await of acquire()
InitConversationSettles(conversationId) ==
  /\ agent.starting = "init"
  /\ agent.wakeLockManager.acquiring < MaxAcquires
  /\ agent' =
       IF conversationId = ""
         THEN [agent EXCEPT !.starting = "idle", !.event = "error"]
         ELSE [agent EXCEPT !.jobId = conversationId,
                            !.webSocketManager = TRUE,
                            !.call = "startCall",
                            !.wakeLockManager = Acquire(@),
                            !.starting = "acquire"]
  /\ UNCHANGED <<managerVars, job>>

\* a pending acquire() settles; the one start() awaits lets start() go on to
\* emit callStarted, whether it was granted or not
AcquireSettles(ofStart, granted) ==
  /\ agent.wakeLockManager.acquiring > 0
  /\ IF ofStart
       THEN agent.starting = "acquire"
       ELSE agent.wakeLockManager.acquiring > (IF agent.starting = "acquire" THEN 1 ELSE 0)
  /\ agent' =
       [agent EXCEPT !.wakeLockManager = AcquireSettled(@, granted),
                     !.starting = IF ofStart THEN "idle" ELSE @,
                     !.event = IF ofStart THEN "callStarted" ELSE @]
  /\ UNCHANGED <<managerVars, job>>

\* a pending release() settles
ReleaseSettles ==
  /\ agent.wakeLockManager.releasing
  /\ agent' = [agent EXCEPT !.wakeLockManager = ReleaseSettled(@)]
  /\ UNCHANGED <<managerVars, job>>

\* end()
AgentEnd ==
  /\ agent' =
       [agent EXCEPT !.call = IF agent.webSocketManager THEN "endCall" ELSE @,
                     !.event = IF agent.webSocketManager THEN "callEnded" ELSE @,
                     !.wakeLockManager = IF IsActive(@) THEN Release(@) ELSE @]
  /\ UNCHANGED <<managerVars, job>>

\* pause()
AgentPause ==
  /\ agent' =
       IF agent.webSocketManager
         THEN [agent EXCEPT !.call = "pauseCall",
                            !.wakeLockManager = IF IsActive(@) THEN Release(@) ELSE @,
                            !.event = "callPaused"]
         ELSE agent
  /\ UNCHANGED <<managerVars, job>>

\* resume()
AgentResume ==
  /\ agent.wakeLockManager.acquiring < MaxAcquires
  /\ agent' =
       IF agent.webSocketManager
         THEN [agent EXCEPT !.call = "resumeCall",
                            !.wakeLockManager = Acquire(@),
                            !.event = "callResumed"]
         ELSE agent
  /\ UNCHANGED <<managerVars, job>>

NextWakeLock ==
  \/ AgentStart
  \/ \E conversationId \in ConversationIds : InitConversationSettles(conversationId)
  \/ \E ofStart, granted \in BOOLEAN : AcquireSettles(ofStart, granted)
  \/ ReleaseSettles
  \/ AgentEnd
  \/ AgentPause
  \/ AgentResume

SpecWakeLock == InitRegistry /\ [][NextWakeLock]_vars

\* nothing of the wake lock manager is in flight
WakeLockQuiet ==
  /\ agent.starting # "acquire"
  /\ agent.wakeLockManager.acquiring = 0
  /\ ~agent.wakeLockManager.releasing

\* C39: after pause() or end() on a started call the screen wake lock ends up
\* not held: once the last call on the socket manager is pauseCall or endCall
\* and every acquire and release has settled, no sentinel is held.  In such a
\* state only a further call of the application can change the lock, so a lock
\* held there stays held.
C39_AsStated ==
  (agent.webSocketManager /\ agent.call \in {"pauseCall", "endCall"} /\ WakeLockQuiet)
    => ~agent.wakeLockManager.held

\* pause() or end() were called while the acquire of start() or resume() was
\* pending and the lock was not yet held
C39_Witness ==
  /\ agent.call \in {"pauseCall", "endCall"}
  /\ agent.wakeLockManager.acquiring > 0
  /\ ~agent.wakeLockManager.held
  /\ ~agent.wakeLockManager.releasing

(***************************************************************************)
(* HamsaVoiceAgent.getJobDetails: polling with backoff                     *)
(***************************************************************************)
\* the largest maxRetries, initialRetryInterval and backoffFactor a call passes
MaxRetries == 4
MaxInterval == 2
MaxFactor == 3

\* what one fetch attempt comes to: the job's status in an ok response, or
\* "error" for a response that is not ok, a body that does not parse and a
\* rejected fetch, which the catch block treats alike
FetchOutcomes == {"COMPLETED", "PENDING", "error"}

\* the catch block of fetchJobDetails: whether another attempt follows
Retry_Inclusive(attempt, maxRetries) == attempt <= maxRetries
Retry(attempt, maxRetries) == attempt < maxRetries

\* getJobDetails(maxRetries, initialRetryInterval, backoffFactor): a call
\* without jobId rejects at once; otherwise the first fetchJobDetails(1) has
\* issued its request
GetJobDetails(maxRetries, initialRetryInterval, backoffFactor) ==
  /\ job.pc \in {"idle", "resolved", "rejected"}
  /\ job' =
       IF agent.jobId = ""
         THEN [NoJob EXCEPT !.pc = "rejected", !.settled = "no jobId",
                            !.maxRetries = maxRetries,
                            !.backoffFactor = backoffFactor,
                            !.initialRetryInterval = initialRetryInterval]
         ELSE [NoJob EXCEPT !.pc = "fetching", !.url = agent.jobId,
                            !.maxRetries = maxRetries,
                            !.backoffFactor = backoffFactor,
                            !.initialRetryInterval = initialRetryInterval,
                            !.currentInterval = initialRetryInterval,
                            !.attempt = 1, !.requests = 1]
  /\ UNCHANGED <<managerVars, agent>>

\* the request of the current attempt settles: a COMPLETED job resolves the
\* call; anything else either starts the delay before the next attempt or
\* rejects the call
FetchSettles(outcome) ==
  /\ job.pc = "fetching"
  /\ job' =
       IF outcome = "COMPLETED"
         THEN [job EXCEPT !.pc = "resolved", !.settled = "data.data",
                          !.completedAt = job.attempt]
         ELSE IF Retry(job.attempt, job.maxRetries)
           THEN [job EXCEPT !.pc = "delaying",
                            !.waits = Append(@, job.currentInterval)]
           ELSE [job EXCEPT !.pc = "rejected", !.settled = "failed"]
  /\ UNCHANGED <<managerVars, agent>>

\* the delay is over: the interval grows and fetchJobDetails(attempt + 1)
\* issues its request
DelayElapses ==
  /\ job.pc = "delaying"
  /\ job' = [job EXCEPT !.pc = "fetching",
                        !.currentInterval = @ * job.backoffFactor,
                        !.attempt = @ + 1,
                        !.requests = @ + 1]
  /\ UNCHANGED <<managerVars, agent>>

NextJob ==
  \/ AgentStart
  \/ \E conversationId \in ConversationIds : InitConversationSettles(conversationId)
  \/ \E maxRetries \in 0..MaxRetries, initialRetryInterval \in 1..MaxInterval,
        backoffFactor \in 1..MaxFactor :
        GetJobDetails(maxRetries, initialRetryInterval, backoffFactor)
  \/ \E outcome \in FetchOutcomes : FetchSettles(outcome)
  \/ DelayElapses

\* every request and every timer settles
SpecJob ==
  /\ InitRegistry /\ [][NextJob]_vars
  /\ WF_vars(\E outcome \in FetchOutcomes : FetchSettles(outcome))
  /\ WF_vars(DelayElapses)

RECURSIVE Pow(_, _)
Pow(b, e) == IF e = 0 THEN 1 ELSE b * Pow(b, e - 1)

JobPending == job.pc \in {"fetching", "delaying"}

JobSettled == job.pc \in {"resolved", "rejected"}

\* the waits so far are initialRetryInterval x backoffFactor^(k-1) after
\* attempt k, one between any two attempts
BackoffWaits ==
  /\ Len(job.waits) = (IF job.pc = "delaying" THEN job.attempt ELSE job.attempt - 1)
  /\ \A k \in DOMAIN job.waits :
       job.waits[k] = job.initialRetryInterval * Pow(job.backoffFactor, k - 1)

\* what a call with a jobId has come to, given the attempts it may make
JobOutcome(most) ==
  /\ job.requests = job.attempt
  /\ job.requests <= most
  /\ BackoffWaits
  /\ (job.pc = "resolved") = (job.completedAt # 0)
  /\ job.pc = "resolved" => job.completedAt = job.requests /\ job.settled = "data.data"
  /\ job.pc = "rejected" => job.requests >= job.maxRetries /\ job.settled = "failed"

\* a call without jobId has rejected and made no request
NoJobIdRejects ==
  job.pc # "idle" /\ job.url = "" =>
    job.pc = "rejected" /\ job.requests = 0 /\ job.settled = "no jobId"

Max2Int(a, b) == IF a >= b THEN a ELSE b

\* C40 as stated: a call makes at most maxRetries fetch attempts
C40_AsStated ==
  /\ NoJobIdRejects
  /\ job.url # "" => JobOutcome(job.maxRetries)

\* C40: getJobDetails always terminates when its requests and timers settle:
\* it rejects without any request when no jobId is stored; otherwise it makes
\* at most max(1, maxRetries) fetch attempts, waits
\* initialRetryInterval x backoffFactor^(k-1) between attempt k and attempt
\* k+1, resolves with the job data on the first attempt whose status is
\* COMPLETED, and rejects after the last failed attempt.
C40_PollingTerminates ==
  /\ [](NoJobIdRejects /\ (job.url # "" => JobOutcome(Max2Int(1, job.maxRetries))))
  /\ (JobPending ~> JobSettled)

\* a call hears COMPLETED at its fourth attempt after waits that tell a power
\* from a product
C40_Witness ==
  /\ job.pc = "resolved" /\ job.requests = 4 /\ job.backoffFactor = 3
  /\ job.waits = <<2, 6, 18>>

====
